---- MODULE Spec2Model ----
(***************************************************************************)
(* NutriWise: the Log Store, the entry form and the Dashboard's derived     *)
(* metrics (today totals, training-load signal, 7-day trend, target         *)
(* engine).                                                                 *)
(*                                                                          *)
(* Numbers.  The program computes in IEEE doubles; the model computes in    *)
(* exact decimal fixed point.  Quantities, macro values and base values of  *)
(* a FoodItem are integers counting hundredths (H(1) = 100), profile fields *)
(* are integers.  Math.round(x) is floor(x+1/2), modelled by Round(n, d) on *)
(* the fraction n/d.  What the code stores without making it a number       *)
(* (durationMinutes, caloriesBurned and the sum of caloriesBurned) is a     *)
(* JavaScript value: a number Num(n), NaN, a string [str |-> characters],   *)
(* Undefined or Null.                                                       *)
(*                                                                          *)
(* Time.  Date.now() is the integer clock `now`; a local day is DayLen      *)
(* consecutive ticks, so isSameDay(a, b) is Day(a) = Day(b) and             *)
(* subDays(d, i) moves DayLen * i ticks back.                               *)
(*                                                                          *)
(* Objects.  A FoodItem is a JavaScript object; its identity is the field   *)
(* `oid`.  An item of the Log Store has an oid > 0: a record with that oid  *)
(* in two places is one object, and an in-place assignment to it            *)
(* (updateItemQuantity) shows everywhere.  An item that only the entry form *)
(* holds (an answer of the estimator, a manual item) has oid 0.             *)
(*                                                                          *)
(* Specifications.  SpecDash and SpecEngine apply the Dashboard's memo      *)
(* callbacks to stored Log Stores and to profiles.  Spec is the application *)
(* with every handler; SpecForm are its sessions in the entry form that     *)
(* save nothing, SpecStore its sessions from the first launch that save     *)
(* the items as the estimator gave them.  The other specifications are the  *)
(* sessions of one concern each: saves that are awaited (SpecAwait), backup *)
(* and restore (SpecBackup), what is sent to the estimator (SpecContext),   *)
(* its answers (SpecSanitize, SpecFeedback), the launch (SpecStartup), the  *)
(* exercise and profile number fields (SpecExercise, SpecProfile), copies   *)
(* (SpecCopy), the chat (SpecChat), callApi (SpecApi) and the handler's     *)
(* executeWithFallback (SpecServer).                                        *)
(***************************************************************************)
EXTENDS Integers, Sequences, FiniteSets, TLC

VARIABLES
    now,            \* Date.now(), in ticks
    logs,           \* App.logs: the Log Store, newest first
    profile,        \* App.profile
    view,           \* App.view
    editingLog,     \* App.editingLog: an entry or Null
    dash,           \* the mounted Dashboard's memoised values, or Null
    feedbackModal,  \* App.feedbackModal
    feedbackCalls,  \* getInstantFeedback requests in flight
    analyzedItems,  \* EntryForm.analyzedItems: [list |-> items] or Null
    isAnalyzing,    \* EntryForm.isAnalyzing: an analyzeImageOrText call is in flight
    estimating,     \* a saveExerciseLog waiting for its estimate (with what its
                    \* closure holds), or Null
    chatHistory,    \* App.chatHistory: the chat transcript
    advice,         \* App.advice: [text |-> string] or Null
    isAdviceLoading,\* App.isAdviceLoading
    isChatLoading,  \* App.isChatLoading
    outbox,         \* the requests to the estimator that are in flight with a log
                    \* entry or logs as history or context, in the order of sending
    alertShown,     \* the text of the last window.alert, or Null
    backup,         \* the file of the last export with the state it was taken
                    \* from, or Null
    root,           \* what the React root shows: "loading" before the first
                    \* render of App, "app", or "error" after a render threw
    saved,          \* what localStorage.getItem returned to the three state
                    \* initialisers of App at the launch
    api,            \* the callApi invocation under observation
    server          \* the executeWithFallback invocation of the handler under observation

\* the entry form, the Log Store and the Dashboard
appVars == <<now, logs, profile, view, editingLog, dash, feedbackModal, feedbackCalls,
             analyzedItems, isAnalyzing, estimating>>

\* the chat, the advice, the backup, the launch and the transport
svcVars == <<chatHistory, advice, isAdviceLoading, isChatLoading, outbox, alertShown,
             backup, root, saved, api, server>>

vars == <<appVars, svcVars>>

Null == [null |-> TRUE]

\* an optional property of an object is a field the record has or lacks
has(r, f) == f \in DOMAIN r

----------------------------------------------------------------------------
(* Bounds of the model *)

DayLen == 2          \* ticks per local day
MaxLogs == 2         \* entries up to which a save or a copy grows the Log Store
MaxItems == 2        \* items up to which a manual item is added to the form
MaxTicks == 1        \* ticks the clock advances within a session
MaxCalls == 2        \* getInstantFeedback requests in flight at a time (SpecAwait)
MaxMessages == 3     \* messages up to which the chat transcript grows

----------------------------------------------------------------------------
(* Arithmetic *)

Max(a, b) == IF a >= b THEN a ELSE b

\* Math.floor(n / d) for d > 0
Floor(n, d) == n \div d

\* Math.round(n / d) for d > 0: the nearest integer, halves towards +infinity
Round(n, d) == (2 * n + d) \div (2 * d)

\* a whole number n as a count of hundredths
H(n) == 100 * n

\* a number that may be NaN: the record [num |-> n], or NaN
NaN == [nan |-> TRUE]
Num(n) == [num |-> n]
isNaN(v) == v = NaN

\* x || 0 on such a number (NaN and 0 are falsy), as an integer
Undefined == [undef |-> TRUE]

\* the values that count as false in v || 0
isFalsy(v) == v = NaN \/ v = Num(0) \/ v = Undefined \/ v = Null \/ v = [str |-> <<>>]

\* v || 0
orZero(v) == IF isFalsy(v) THEN Num(0) ELSE v

Digits == <<"0", "1", "2", "3", "4", "5", "6", "7", "8", "9">>
isDigit(c) == \E d \in DOMAIN Digits : Digits[d] = c
digitOf(c) == (CHOOSE d \in DOMAIN Digits : Digits[d] = c) - 1

\* String(n) for an integer n
RECURSIVE numberToString(_)
numberToString(n) ==
    IF n < 0 THEN <<"-">> \o numberToString(0 - n)
    ELSE IF n < 10 THEN <<Digits[n + 1]>>
    ELSE numberToString(n \div 10) \o <<Digits[(n % 10) + 1]>>

\* String(v) for a number or a string
toText(v) ==
    IF has(v, "str") THEN v.str
    ELSE IF isNaN(v) THEN <<"N", "a", "N">>
    ELSE numberToString(v.num)

\* a + b for numbers and strings: the sum of two numbers, else the texts joined
plus(a, b) ==
    IF has(a, "str") \/ has(b, "str") THEN [str |-> toText(a) \o toText(b)]
    ELSE IF isNaN(a) \/ isNaN(b) THEN NaN
    ELSE Num(a.num + b.num)

\* parseInt(text) on the value of a number field (a sequence of characters
\* without white space): an optional sign and the digits up to the first
\* character that is no digit; NaN if no digit comes first
parseInt(text) ==
    LET signed == text # <<>> /\ Head(text) \in {"-", "+"}
        body == IF signed THEN Tail(text) ELSE text
        RECURSIVE value(_, _)
        value(rest, acc) ==
            IF rest = <<>> \/ ~isDigit(Head(rest)) THEN acc
            ELSE value(Tail(rest), 10 * acc + digitOf(Head(rest)))
    IN  IF body = <<>> \/ ~isDigit(Head(body)) THEN NaN
        ELSE Num(IF Head(text) = "-" THEN 0 - value(body, 0) ELSE value(body, 0))

RECURSIVE SumSeq(_)
SumSeq(s) == IF s = <<>> THEN 0 ELSE Head(s) + SumSeq(Tail(s))

Day(t) == t \div DayLen

isSameDay(a, b) == Day(a) = Day(b)

subDays(t, i) == t - DayLen * i

----------------------------------------------------------------------------
(* Strings: a name is a sequence of one-character strings *)

UpperChars == <<"A","B","C","D","E","F","G","H","I","J","K","L","M",
                "N","O","P","Q","R","S","T","U","V","W","X","Y","Z">>
LowerChars == <<"a","b","c","d","e","f","g","h","i","j","k","l","m",
                "n","o","p","q","r","s","t","u","v","w","x","y","z">>

\* String.prototype.toLowerCase, character by character
toLowerChar(c) ==
    IF \E i \in DOMAIN UpperChars : UpperChars[i] = c
    THEN LowerChars[CHOOSE i \in DOMAIN UpperChars : UpperChars[i] = c]
    ELSE c

toLowerCase(s) == [i \in DOMAIN s |-> toLowerChar(s[i])]

\* String.prototype.includes: sub occurs in s as a contiguous run
includes(s, sub) ==
    \E k \in 0..(Len(s) - Len(sub)) : SubSeq(s, k + 1, k + Len(sub)) = sub

strWeight == <<"w","e","i","g","h","t">>
strStrength == <<"s","t","r","e","n","g","t","h">>
strLift == <<"l","i","f","t">>

----------------------------------------------------------------------------
(* Dashboard: today totals and training-load signal (useMemo over [logs]) *)

startOfDay(t) == Day(t) * DayLen

\* mutant: the day filter is dropped
todayLogsOfAnyDay(ls, t) == ls

todayLogsOf(ls, t) ==
    SelectSeq(ls, LAMBDA log : isSameDay(log.timestamp, startOfDay(t)))

zeroTotals == [calories |-> 0, protein |-> 0, carbs |-> 0, fat |-> 0, burned |-> Num(0)]

\* one step of the reduce callback: acc after visiting log
addLog(acc, log) ==
    IF log.type = "food" /\ has(log, "items")
    THEN [acc EXCEPT
            !.calories = @ + SumSeq([i \in DOMAIN log.items |-> log.items[i].calories]),
            !.protein = @ + SumSeq([i \in DOMAIN log.items |-> log.items[i].protein]),
            !.carbs = @ + SumSeq([i \in DOMAIN log.items |-> log.items[i].carbs]),
            !.fat = @ + SumSeq([i \in DOMAIN log.items |-> log.items[i].fat])]
    ELSE IF log.type = "exercise" /\ has(log, "exercise")
    THEN [acc EXCEPT !.burned = plus(@, log.exercise.caloriesBurned)]
    ELSE acc

RECURSIVE reduceTotals(_, _)
reduceTotals(ls, acc) ==
    IF ls = <<>> THEN acc ELSE reduceTotals(Tail(ls), addLog(acc, Head(ls)))

todayTotals(ls, t) == reduceTotals(todayLogsOf(ls, t), zeroTotals)

\* mutant: the name is matched case-sensitively
isStrengthCaseSensitive(l) ==
    /\ l.type = "exercise"
    /\ has(l, "exercise")
    /\ \/ l.exercise.intensity = "high"
       \/ includes(l.exercise.name, strWeight)
       \/ includes(l.exercise.name, strStrength)
       \/ includes(l.exercise.name, strLift)

isStrength(l) ==
    /\ l.type = "exercise"
    /\ has(l, "exercise")
    /\ \/ l.exercise.intensity = "high"
       \/ includes(toLowerCase(l.exercise.name), strWeight)
       \/ includes(toLowerCase(l.exercise.name), strStrength)
       \/ includes(toLowerCase(l.exercise.name), strLift)

hasStrength(ls, t) ==
    LET today == todayLogsOf(ls, t)
    IN  \E k \in DOMAIN today : isStrength(today[k])

----------------------------------------------------------------------------
(* Dashboard: chart data of the last 7 days (useMemo over [logs]) *)

\* format(date, 'EEE'); day 0 of the epoch is a Thursday
weekdayNames == <<"Thu", "Fri", "Sat", "Sun", "Mon", "Tue", "Wed">>
formatEEE(t) == weekdayNames[(Day(t) % 7) + 1]

foodCalories(log) ==
    IF log.type = "food" /\ has(log, "items")
    THEN SumSeq([i \in DOMAIN log.items |-> log.items[i].calories])
    ELSE 0

chartPoint(ls, date) ==
    LET dailyLogs == SelectSeq(ls, LAMBDA log : isSameDay(log.timestamp, date))
    IN  [name |-> formatEEE(date),
         calories |-> SumSeq([k \in DOMAIN dailyLogs |-> foodCalories(dailyLogs[k])])]

\* mutant: the loop runs i = 7, ..., 1
chartDataShifted(ls, t) == [k \in 1..7 |-> chartPoint(ls, subDays(t, 8 - k))]

\* the loop runs i = 6, 5, ..., 0 and pushes one point per round
chartData(ls, t) == [k \in 1..7 |-> chartPoint(ls, subDays(t, 7 - k))]

----------------------------------------------------------------------------
(* Dashboard: target engine (useMemo over [profile, exerciseFocus]) *)

\* mutant: gender other takes the male offset
bmr4OtherAsMale(p) ==
    40 * p.weightKg + 25 * p.heightCm - 20 * p.age
        + (IF p.gender # "female" THEN 4 * 5 ELSE 4 * (0 - 161))

\* 4 * bmr, an integer: 10*weightKg + 6.25*heightCm - 5*age, +5 male, -161 else
bmr4(p) ==
    40 * p.weightKg + 25 * p.heightCm - 20 * p.age
        + (IF p.gender = "male" THEN 4 * 5 ELSE 4 * (0 - 161))

\* 1000 * activityMultipliers[level]
activityMultipliers(level) ==
    CASE level = "sedentary" -> 1200
      [] level = "light" -> 1375
      [] level = "moderate" -> 1550
      [] level = "active" -> 1725
      [] level = "athlete" -> 1900

\* mutant: the TDEE is truncated instead of rounded
tdeeOfTruncated(p) == Floor(bmr4(p) * activityMultipliers(p.activityLevel), 4 * 1000)

tdeeOf(p) == Round(bmr4(p) * activityMultipliers(p.activityLevel), 4 * 1000)

msgWorkout == "Workout detected: Deficit reduced & Protein bumped for recovery."
msgGrowth == "Great work! Fuel up for growth."

\* mutant: maintain does not raise the protein factor on training days
goalBranchFlatMaintain(goal, tdee, exerciseFocus) ==
    IF goal = "lose_fat"
    THEN IF exerciseFocus
         THEN [target |-> tdee - 250, proteinFactor |-> 20, msg |-> msgWorkout]
         ELSE [target |-> tdee - 500, proteinFactor |-> 18, msg |-> ""]
    ELSE IF goal = "gain_muscle"
    THEN IF exerciseFocus
         THEN [target |-> tdee + 300, proteinFactor |-> 22, msg |-> msgGrowth]
         ELSE [target |-> tdee + 300, proteinFactor |-> 20, msg |-> ""]
    ELSE [target |-> tdee, proteinFactor |-> 14, msg |-> ""]

\* mutant: maintain shows the growth message on training days
goalBranchMaintainMsg(goal, tdee, exerciseFocus) ==
    IF goal = "lose_fat"
    THEN IF exerciseFocus
         THEN [target |-> tdee - 250, proteinFactor |-> 20, msg |-> msgWorkout]
         ELSE [target |-> tdee - 500, proteinFactor |-> 18, msg |-> ""]
    ELSE IF goal = "gain_muscle"
    THEN IF exerciseFocus
         THEN [target |-> tdee + 300, proteinFactor |-> 22, msg |-> msgGrowth]
         ELSE [target |-> tdee + 300, proteinFactor |-> 20, msg |-> ""]
    ELSE IF exerciseFocus
         THEN [target |-> tdee, proteinFactor |-> 16, msg |-> msgGrowth]
         ELSE [target |-> tdee, proteinFactor |-> 14, msg |-> ""]

\* the goal branches: target, protein factor (in tenths of g per kg), message
goalBranch(goal, tdee, exerciseFocus) ==
    IF goal = "lose_fat"
    THEN IF exerciseFocus
         THEN [target |-> tdee - 250, proteinFactor |-> 20, msg |-> msgWorkout]
         ELSE [target |-> tdee - 500, proteinFactor |-> 18, msg |-> ""]
    ELSE IF goal = "gain_muscle"
    THEN IF exerciseFocus
         THEN [target |-> tdee + 300, proteinFactor |-> 22, msg |-> msgGrowth]
         ELSE [target |-> tdee + 300, proteinFactor |-> 20, msg |-> ""]
    ELSE IF exerciseFocus
         THEN [target |-> tdee, proteinFactor |-> 16, msg |-> ""]
         ELSE [target |-> tdee, proteinFactor |-> 14, msg |-> ""]

targetProteinOf(weightKg, proteinFactor) == Round(weightKg * proteinFactor, 10)

\* Math.round((target * 0.25) / 9)
targetFatOf(target) == Round(target, 4 * 9)

\* mutant: the clamp at zero is missing
targetCarbsUnclamped(target, targetProtein, targetFat) ==
    Round(target - (targetProtein * 4) - (targetFat * 9), 4)

targetCarbsOf(target, targetProtein, targetFat) ==
    Max(0, Round(target - (targetProtein * 4) - (targetFat * 9), 4))

\* an engine that also reads the Log Store: the calories burned today are
\* added to the calorie target
targetEngineEatBack(p, exerciseFocus) ==
    LET b == goalBranch(p.goal, tdeeOf(p), exerciseFocus)
        target == b.target + todayTotals(logs, now).burned.num
        targetProtein == targetProteinOf(p.weightKg, b.proteinFactor)
        targetFat == targetFatOf(target)
        targetCarbs == targetCarbsOf(target, targetProtein, targetFat)
    IN  [calorieTarget |-> target,
         macroTargets |-> [protein |-> targetProtein, carbs |-> targetCarbs,
                           fat |-> targetFat],
         adviceMessage |-> b.msg]

targetEngine(p, exerciseFocus) ==
    LET b == goalBranch(p.goal, tdeeOf(p), exerciseFocus)
        targetProtein == targetProteinOf(p.weightKg, b.proteinFactor)
        targetFat == targetFatOf(b.target)
        targetCarbs == targetCarbsOf(b.target, targetProtein, targetFat)
    IN  [calorieTarget |-> b.target,
         macroTargets |-> [protein |-> targetProtein, carbs |-> targetCarbs,
                           fat |-> targetFat],
         adviceMessage |-> b.msg]

\* what a Dashboard that mounts at time t holds
renderDashboard(ls, p, t) ==
    LET focus == hasStrength(ls, t)
    IN  [todayTotals |-> todayTotals(ls, t),
         exerciseFocus |-> focus,
         chartData |-> chartData(ls, t),
         targets |-> targetEngine(p, focus)]

\* what a mounted Dashboard holds after a render in which the view is v2, the
\* Log Store ls2 and the profile p2: the memo over [logs] is recomputed when
\* setLogs ran (logsSet), the memo over [profile, exerciseFocus] when one of
\* the two changed; a Dashboard that was not mounted computes everything
dashAfter(v2, ls2, p2, logsSet) ==
    IF v2 # "dashboard" THEN Null
    ELSE IF dash = Null THEN renderDashboard(ls2, p2, now)
    ELSE LET totals == IF logsSet THEN todayTotals(ls2, now) ELSE dash.todayTotals
             focus == IF logsSet THEN hasStrength(ls2, now) ELSE dash.exerciseFocus
             chart == IF logsSet THEN chartData(ls2, now) ELSE dash.chartData
             targets == IF p2 # profile \/ focus # dash.exerciseFocus
                        THEN targetEngine(p2, focus) ELSE dash.targets
         IN  [todayTotals |-> totals, exerciseFocus |-> focus,
              chartData |-> chart, targets |-> targets]

----------------------------------------------------------------------------
(* Entry form: client-side scaling of an item (updateItemQuantity) *)

\* Math.floor in place of Math.round
scaledCaloriesTruncated(base, q) == 100 * Floor(base * q, 100 * 100)

\* Math.round(base * q), base and q in hundredths, the result in hundredths
scaledCalories(base, q) == 100 * Round(base * q, 100 * 100)

\* Math.round(base * q * 10) / 10, base and q in hundredths, the result in
\* hundredths
scaledMacro(base, q) == 10 * Round(base * q, 10 * 100)

\* the assignments of updateItemQuantity to the item object
scaleItem(item, q) ==
    [item EXCEPT !.quantity = q,
                 !.calories = scaledCalories(item.baseCalories, q),
                 !.protein = scaledMacro(item.baseProtein, q),
                 !.carbs = scaledMacro(item.baseCarbs, q),
                 !.fat = scaledMacro(item.baseFat, q)]

\* the item objects are shared: an assignment to the object oid shows in every
\* list that holds it
assignInItems(items, oid, q) ==
    [i \in DOMAIN items |->
        IF oid # 0 /\ items[i].oid = oid THEN scaleItem(items[i], q) ELSE items[i]]

assignInEntry(e, oid, q) ==
    IF has(e, "items") THEN [e EXCEPT !.items = assignInItems(@, oid, q)] ELSE e

assignInLogs(ls, oid, q) == [k \in DOMAIN ls |-> assignInEntry(ls[k], oid, q)]

----------------------------------------------------------------------------
(* Data: profiles, items, entries *)

INITIAL_PROFILE ==
    [name |-> "User", age |-> 30, heightCm |-> 175, weightKg |-> 70,
     gender |-> "male", activityLevel |-> "moderate", goal |-> "maintain",
     dietaryPreferences |-> "none"]

Genders == {"male", "female", "other"}
ActivityLevels == {"sedentary", "light", "moderate", "active", "athlete"}
Goals == {"lose_fat", "maintain", "gain_muscle"}
Intensities == {"low", "medium", "high"}

\* a FoodItem as analyzeImageOrText builds it from an item of the estimator's
\* answer: qty = quantityAmount || 1, calories and macros as given, base
\* values = value / qty (all in hundredths; the quantities of the catalogue
\* divide the values exactly)
foodItem(oid, name, quantityAmount, cal, prot, carb, fat) ==
    LET qty == IF quantityAmount = 0 THEN H(1) ELSE quantityAmount
    IN  [oid |-> oid, name |-> name, quantity |-> qty, unit |-> "serving",
         calories |-> cal, protein |-> prot, carbs |-> carb, fat |-> fat,
         baseCalories |-> (cal * 100) \div qty, baseProtein |-> (prot * 100) \div qty,
         baseCarbs |-> (carb * 100) \div qty, baseFat |-> (fat * 100) \div qty,
         confidence |-> "high"]

\* toString of a number of ticks: the id of an entry created at that time
idOf(t) == ToString(t)

foodEntry(id, t, items) ==
    [id |-> id, timestamp |-> t, type |-> "food", items |-> items]

foodEntryWithImage(id, t, items, image) ==
    [id |-> id, timestamp |-> t, type |-> "food", items |-> items, image |-> image]

\* durationMinutes is what parseInt gave: a number that may be NaN
exerciseEntry(id, t, name, duration, burned, intensity) ==
    [id |-> id, timestamp |-> t, type |-> "exercise",
     exercise |-> [name |-> name, durationMinutes |-> duration,
                   caloriesBurned |-> burned, intensity |-> intensity]]

noteEntry(id, t, text) ==
    [id |-> id, timestamp |-> t, type |-> "note", noteContent |-> text]

nameRun == <<"R","u","n">>
nameDeadlift == <<"D","e","a","d","l","i","f","t"," ","S","t","r","e","n","g","t","h",
                  " ","S","e","s","s","i","o","n">>
nameWeights == <<"W","E","I","G","H","T","S">>
nameStrong == <<"S","t","r","o","n","g"," ","w","a","l","k">>

\* the clock at the start of a session
StartDay == 10
NoonOf(d) == d * DayLen + (DayLen - 1)
MorningOf(d) == d * DayLen

----------------------------------------------------------------------------
(* Specification SpecDash: the Dashboard mounted over any stored Log Store *)

MaxDashLogs == 2

riceItem == foodItem(1, "Rice", H(2), H(260), 540, 5720, 60)
eggItem == foodItem(2, "Egg", 50, H(39), 310, 30, 260)
oilItem == foodItem(3, "Oil", 0, H(119), 0, 0, 1350)

\* stored entries, as they are at time t
DashEntriesAt(t) ==
    { foodEntryWithImage(idOf(t), t, <<riceItem, eggItem>>, "jpeg"),
      foodEntry(idOf(t), t, <<oilItem>>),
      [id |-> idOf(t), timestamp |-> t, type |-> "food"],
      exerciseEntry(idOf(t), t, nameRun, Num(30), Num(300), "high"),
      exerciseEntry(idOf(t), t, nameDeadlift, Num(45), Num(210), "low"),
      exerciseEntry(idOf(t), t, nameWeights, Num(40), Num(250), "medium"),
      exerciseEntry(idOf(t), t, nameStrong, Num(20), Num(90), "low"),
      noteEntry(idOf(t), t, "felt fine") }

DashTimes ==
    { NoonOf(StartDay - 7), MorningOf(StartDay - 6),
      NoonOf(StartDay - 1), MorningOf(StartDay), NoonOf(StartDay),
      MorningOf(StartDay + 1) }

DashEntries == UNION { DashEntriesAt(t) : t \in DashTimes }

SeqsUpTo(S, n) == UNION { [1..k -> S] : k \in 0..n }

\* the transcript of a launch that found no saved transcript
welcomeMessage(t) ==
    [id |-> "0", role |-> "model",
     text |-> "Hi! I can help you analyze your nutrition logs, suggest meals, or answer health questions. What can I do for you?",
     timestamp |-> t]

\* the state of a running App apart from the clock, the Log Store and the
\* Profile
InitForm ==
    /\ view = "dashboard"
    /\ editingLog = Null
    /\ dash = Null
    /\ feedbackModal = [isOpen |-> FALSE, isLoading |-> FALSE, message |-> Null]
    /\ feedbackCalls = 0
    /\ analyzedItems = Null
    /\ isAnalyzing = FALSE
    /\ estimating = Null
    /\ chatHistory = <<welcomeMessage(now)>>
    /\ advice = Null
    /\ isAdviceLoading = FALSE
    /\ isChatLoading = FALSE
    /\ outbox = <<>>
    /\ alertShown = Null
    /\ backup = Null
    /\ root = "app"
    /\ saved = [nutriwise_logs |-> Null, nutriwise_profile |-> Null, nutriwise_chat |-> Null]
    /\ api = Null
    /\ server = Null

InitDash ==
    /\ now \in {MorningOf(StartDay), NoonOf(StartDay)}
    /\ logs \in SeqsUpTo(DashEntries, MaxDashLogs)
    /\ profile = INITIAL_PROFILE
    /\ InitForm

\* the Dashboard's first render: every useMemo callback runs
DashboardMount ==
    /\ view = "dashboard"
    /\ dash = Null
    /\ dash' = renderDashboard(logs, profile, now)
    /\ UNCHANGED <<now, logs, profile, view, editingLog, feedbackModal, feedbackCalls,
                   analyzedItems, isAnalyzing, estimating>>
    /\ UNCHANGED svcVars

SpecDash == InitDash /\ [][DashboardMount]_vars

----------------------------------------------------------------------------
(* Specification SpecEngine: the target engine over any profile *)

EngineProfiles ==
    [name : {"User"}, age : {0, 30, 100}, heightCm : {0, 156, 175},
     weightKg : {0, 70, 72, 300}, gender : Genders,
     activityLevel : ActivityLevels, goal : Goals,
     dietaryPreferences : {"none"}]

InitEngine ==
    /\ now = NoonOf(StartDay)
    /\ logs \in { <<>>,
                  <<exerciseEntry("1", MorningOf(StartDay), nameWeights, Num(40), Num(250), "low")>> }
    /\ profile \in EngineProfiles
    /\ InitForm

SpecEngine == InitEngine /\ [][DashboardMount]_vars

----------------------------------------------------------------------------
(* Specification Spec: the application, from its first render *)

StartTime == NoonOf(StartDay)

\* items of the estimator's answers (quantityAmount 0: the field is missing)
AnalyzeResults ==
    { << [name |-> "Rice", quantityAmount |-> H(2), calories |-> H(260),
          protein |-> 500, carbs |-> 5720, fat |-> 80],
         [name |-> "Oil", quantityAmount |-> 0, calories |-> H(119),
          protein |-> 0, carbs |-> 0, fat |-> 1350] >> }

\* the values typed into the quantity field: parseFloat(value) || 0
Quantities == {0, 50, 150}

\* the values of the fields of the exercise tab
ExerciseInputs ==
    { [exName |-> nameRun, exDuration |-> <<"3", "0">>, exIntensity |-> "low",
       exCals |-> <<"2", "0", "0">>],
      [exName |-> nameWeights, exDuration |-> <<"4", "0">>, exIntensity |-> "medium",
       exCals |-> <<>>],
      [exName |-> nameWeights, exDuration |-> <<"4", "0">>, exIntensity |-> "medium",
       exCals |-> <<"0">>] }

\* result.calories of the estimator's answers
EstimateAnswers == {Num(250)}

NoteTexts == {"felt fine"}

ProfileGoals == Goals

\* the Log Store found in localStorage at startup
StoredLogs ==
    { <<>>,
      << foodEntry("s1", NoonOf(StartDay - 1),
                   << foodItem(1, "Rice", H(2), H(260), 500, 5720, 80) >>) >> }

itemsOf(e) == IF has(e, "items") THEN e.items ELSE <<>>

oidsOfItems(items) == { items[i].oid : i \in DOMAIN items }

oidsOfLogs(ls) == UNION { oidsOfItems(itemsOf(ls[k])) : k \in DOMAIN ls }

formItems == IF analyzedItems = Null THEN <<>> ELSE analyzedItems.list

\* the item objects that are reachable from the state
liveOids ==
    oidsOfLogs(logs) \cup (oidsOfItems(formItems) \ {0})
    \cup (IF editingLog = Null THEN {} ELSE oidsOfItems(itemsOf(editingLog)))
    \cup (IF estimating = Null THEN {} ELSE oidsOfLogs(estimating.logs))

\* the identity of the k-th object allocated in this step
newOid(k) ==
    LET free(n) == Cardinality({ m \in 1..n : m \notin liveOids })
    IN  CHOOSE n \in 1..(Cardinality(liveOids) + k) : n \notin liveOids /\ free(n) = k

\* the entries that the Log Store ls, the edited entry ed and the awaited save
\* est hold, in this order
entriesHeld(ls, ed, est) ==
    ls \o (IF ed = Null THEN <<>> ELSE <<ed>>)
       \o (IF est = Null THEN <<>>
           ELSE est.logs \o (IF est.editingLog = Null THEN <<>> ELSE <<est.editingLog>>))

oidSeq(es) ==
    LET RECURSIVE go(_)
        go(r) == IF r = <<>> THEN <<>>
                 ELSE [i \in DOMAIN itemsOf(Head(r)) |-> itemsOf(Head(r))[i].oid]
                      \o go(Tail(r))
    IN  go(es)

\* the number of the object oid when the objects are counted in the order in
\* which seq first reaches them
rankIn(seq, oid) ==
    LET first == CHOOSE j \in DOMAIN seq : seq[j] = oid /\ \A m \in 1..(j - 1) : seq[m] # oid
    IN  Cardinality({ seq[m] : m \in 1..(first - 1) }) + 1

renumberEntry(e, seq) ==
    IF has(e, "items")
    THEN [e EXCEPT !.items = [i \in DOMAIN e.items |->
                                 [e.items[i] EXCEPT !.oid = rankIn(seq, e.items[i].oid)]]]
    ELSE e

renumberLogs(ls, seq) == [k \in DOMAIN ls |-> renumberEntry(ls[k], seq)]

\* the Log Store, the edited entry and the awaited save after a step; the
\* identities of the objects are names, and the objects are renamed to
\* 1, 2, ... in the order in which the three reach them
setStore(ls2, ed2, est2) ==
    LET seq == oidSeq(entriesHeld(ls2, ed2, est2))
    IN  /\ logs' = renumberLogs(ls2, seq)
        /\ editingLog' = IF ed2 = Null THEN Null ELSE renumberEntry(ed2, seq)
        /\ estimating' =
               IF est2 = Null THEN Null
               ELSE [est2 EXCEPT !.logs = renumberLogs(est2.logs, seq),
                                 !.editingLog = IF est2.editingLog = Null THEN Null
                                                ELSE renumberEntry(est2.editingLog, seq)]

UIReady == ~feedbackModal.isOpen /\ (view = "dashboard" => dash # Null)

\* the EntryForm is unmounted with its state when the view leaves 'add'
formAfter(v2, items2, analyzing2) ==
    /\ analyzedItems' = IF v2 = "add" THEN items2 ELSE Null
    /\ isAnalyzing' = IF v2 = "add" THEN analyzing2 ELSE FALSE

setView(v2) ==
    /\ view' = v2
    /\ dash' = dashAfter(v2, logs, profile, FALSE)
    /\ formAfter(v2, Null, FALSE)

Tick ==
    /\ now < StartTime + MaxTicks
    /\ now' = now + 1
    /\ UNCHANGED <<logs, profile, view, editingLog, dash, feedbackModal, feedbackCalls,
                   analyzedItems, isAnalyzing, estimating>>
    /\ UNCHANGED svcVars

GoDashboard ==
    /\ UIReady
    /\ view \in {"chat", "profile", "history"}
    /\ setView("dashboard")
    /\ UNCHANGED <<now, logs, profile, editingLog, feedbackModal, feedbackCalls, estimating>>
    /\ UNCHANGED svcVars

GoAdd ==
    /\ UIReady
    /\ view # "add"
    /\ editingLog' = Null
    /\ setView("add")
    /\ UNCHANGED <<now, logs, profile, feedbackModal, feedbackCalls, estimating>>
    /\ UNCHANGED svcVars

GoChat ==
    /\ UIReady
    /\ view \notin {"add", "chat"}
    /\ setView("chat")
    /\ UNCHANGED <<now, logs, profile, editingLog, feedbackModal, feedbackCalls, estimating>>
    /\ UNCHANGED svcVars

GoProfile ==
    /\ UIReady
    /\ view \notin {"add", "profile"}
    /\ setView("profile")
    /\ UNCHANGED <<now, logs, profile, editingLog, feedbackModal, feedbackCalls, estimating>>
    /\ UNCHANGED svcVars

ViewHistory ==
    /\ UIReady
    /\ view = "dashboard"
    /\ setView("history")
    /\ UNCHANGED <<now, logs, profile, editingLog, feedbackModal, feedbackCalls, estimating>>
    /\ UNCHANGED svcVars

\* the form's effect on [initialEntry] runs with the mount
handleEditLog(k) ==
    /\ UIReady
    /\ \/ view = "history"
       \/ view = "dashboard" /\ isSameDay(logs[k].timestamp, now)
    /\ editingLog' = logs[k]
    /\ view' = "add"
    /\ dash' = Null
    /\ analyzedItems' = IF logs[k].type = "food" THEN [list |-> itemsOf(logs[k])] ELSE Null
    /\ isAnalyzing' = FALSE
    /\ UNCHANGED <<now, logs, profile, feedbackModal, feedbackCalls, estimating>>
    /\ UNCHANGED svcVars

onCancel ==
    /\ UIReady
    /\ view = "add"
    /\ editingLog' = Null
    /\ setView("dashboard")
    /\ UNCHANGED <<now, logs, profile, feedbackModal, feedbackCalls, estimating>>
    /\ UNCHANGED svcVars

SetProfile(field, value) ==
    /\ UIReady
    /\ view = "profile"
    /\ profile' = [profile EXCEPT ![field] = value]
    /\ UNCHANGED <<now, logs, view, editingLog, dash, feedbackModal, feedbackCalls,
                   analyzedItems, isAnalyzing, estimating>>
    /\ UNCHANGED svcVars

\* the tabs are fixed to the type of the entry that is edited
tabShown(tab) ==
    view = "add" /\ (IF editingLog = Null THEN TRUE ELSE editingLog.type = tab)

handleAnalyzeFood ==
    /\ UIReady
    /\ tabShown("food")
    /\ analyzedItems = Null
    /\ ~isAnalyzing
    /\ isAnalyzing' = TRUE
    /\ UNCHANGED <<now, logs, profile, view, editingLog, dash, feedbackModal,
                   feedbackCalls, analyzedItems, estimating>>
    /\ UNCHANGED svcVars

\* analyzeImageOrText answered: the items are new objects
AnalyzeDone(result) ==
    /\ isAnalyzing
    /\ analyzedItems' =
           [list |-> [i \in DOMAIN result |->
                         foodItem(0, result[i].name, result[i].quantityAmount,
                                  result[i].calories, result[i].protein,
                                  result[i].carbs, result[i].fat)]]
    /\ isAnalyzing' = FALSE
    /\ UNCHANGED <<now, logs, profile, view, editingLog, dash, feedbackModal,
                   feedbackCalls, estimating>>
    /\ UNCHANGED svcVars

\* analyzeImageOrText threw
AnalyzeFail ==
    /\ isAnalyzing
    /\ isAnalyzing' = FALSE
    /\ UNCHANGED <<now, logs, profile, view, editingLog, dash, feedbackModal,
                   feedbackCalls, analyzedItems, estimating>>
    /\ UNCHANGED svcVars

updateItemQuantity(index, newQty) ==
    /\ UIReady
    /\ tabShown("food")
    /\ analyzedItems # Null
    /\ index \in DOMAIN analyzedItems.list
    /\ LET oid == analyzedItems.list[index].oid
       IN  /\ analyzedItems' = [list |-> [analyzedItems.list EXCEPT
                                             ![index] = scaleItem(@, newQty)]]
           /\ logs' = assignInLogs(logs, oid, newQty)
           /\ editingLog' = IF editingLog = Null THEN Null
                            ELSE assignInEntry(editingLog, oid, newQty)
           /\ estimating' = IF estimating = Null THEN Null
                            ELSE [estimating EXCEPT !.logs = assignInLogs(@, oid, newQty),
                                      !.editingLog = IF @ = Null THEN Null
                                                     ELSE assignInEntry(@, oid, newQty)]
    /\ UNCHANGED <<now, profile, view, dash, feedbackModal, feedbackCalls, isAnalyzing>>
    /\ UNCHANGED svcVars

RemoveItem(idx) ==
    /\ UIReady
    /\ tabShown("food")
    /\ analyzedItems # Null
    /\ idx \in DOMAIN analyzedItems.list
    /\ analyzedItems' =
           [list |-> SubSeq(analyzedItems.list, 1, idx - 1)
                     \o SubSeq(analyzedItems.list, idx + 1, Len(analyzedItems.list))]
    /\ UNCHANGED <<now, logs, profile, view, editingLog, dash, feedbackModal,
                   feedbackCalls, isAnalyzing, estimating>>
    /\ UNCHANGED svcVars

AddManualItem ==
    /\ UIReady
    /\ tabShown("food")
    /\ analyzedItems # Null
    /\ Len(analyzedItems.list) < MaxItems
    /\ analyzedItems' =
           [list |-> Append(analyzedItems.list,
                            [oid |-> 0, name |-> "New Item", quantity |-> H(1),
                             unit |-> "serving", baseCalories |-> H(100),
                             baseProtein |-> H(5), baseCarbs |-> H(10), baseFat |-> H(5),
                             calories |-> H(100), protein |-> H(5), carbs |-> H(10),
                             fat |-> H(5), confidence |-> "high"])]
    /\ UNCHANGED <<now, logs, profile, view, editingLog, dash, feedbackModal,
                   feedbackCalls, isAnalyzing, estimating>>
    /\ UNCHANGED svcVars

Back ==
    /\ UIReady
    /\ tabShown("food")
    /\ analyzedItems # Null
    /\ analyzedItems' = Null
    /\ UNCHANGED <<now, logs, profile, view, editingLog, dash, feedbackModal,
                   feedbackCalls, isAnalyzing, estimating>>
    /\ UNCHANGED svcVars

\* const { image, ...rest } = log
stripImageKeepsAll(log) == log

\* const { image, ...rest } = log
stripImage(log) == [f \in DOMAIN log \ {"image"} |-> log[f]]

stripImages(ls) == [k \in DOMAIN ls |-> stripImage(ls[k])]

\* a value as the body of a request carries it: JSON text holds the values of
\* the objects, not their identities
\* (JSON.stringify writes a NaN number as null)
json(e) ==
    IF has(e, "items")
    THEN [e EXCEPT !.items = [i \in DOMAIN e.items |-> [e.items[i] EXCEPT !.oid = 0]]]
    ELSE IF has(e, "exercise") /\ isNaN(e.exercise.durationMinutes)
    THEN [e EXCEPT !.exercise.durationMinutes = Null]
    ELSE e

jsonLogs(ls) == [k \in DOMAIN ls |-> json(ls[k])]

\* a call of callApi(action, payload) that has not returned
request(action, payload) == [action |-> action, payload |-> payload]

\* the request at position k of the outbox returned or threw
withoutRequest(k) == SubSeq(outbox, 1, k - 1) \o SubSeq(outbox, k + 1, Len(outbox))

svcButOutbox == <<chatHistory, advice, isAdviceLoading, isChatLoading, alertShown,
                  backup, root, saved, api, server>>

\* handleSaveEntry as it was bound in the render that held Log Store cLogs and
\* editing state cEditing; est2 is the save that is awaited after the step
handleSaveEntry(entry, cLogs, cEditing, est2) ==
    LET updatedLogs ==
            IF cEditing # Null
            THEN [k \in DOMAIN cLogs |-> IF cLogs[k].id = entry.id THEN entry ELSE cLogs[k]]
            ELSE <<entry>> \o cLogs
    IN  /\ setStore(updatedLogs, IF cEditing # Null THEN Null ELSE editingLog, est2)
        /\ view' = "dashboard"
        /\ dash' = dashAfter("dashboard", updatedLogs, profile, TRUE)
        /\ formAfter("dashboard", Null, FALSE)
        /\ feedbackModal' = [isOpen |-> TRUE, isLoading |-> TRUE, message |-> Null]
        /\ feedbackCalls' = feedbackCalls + 1
        /\ outbox' = Append(outbox, request("getInstantFeedback",
                                            [entry |-> json(stripImage(entry)),
                                             profile |-> profile]))
        /\ UNCHANGED svcButOutbox

\* id and timestamp of the entry a save builds
entryId(initialEntry) == IF initialEntry # Null THEN initialEntry.id ELSE idOf(now)
entryTimestamp(initialEntry) == IF initialEntry # Null THEN initialEntry.timestamp ELSE now

CanSave == IF editingLog # Null THEN TRUE ELSE Len(logs) < MaxLogs

\* Number(x) || 0 on the fields of the items, spread into new objects
sanitizedItems(items) == [i \in DOMAIN items |-> [items[i] EXCEPT !.oid = newOid(i)]]

saveFoodLog(selectedImage) ==
    /\ UIReady
    /\ tabShown("food")
    /\ analyzedItems # Null
    /\ CanSave
    /\ LET id == entryId(editingLog)
           ts == entryTimestamp(editingLog)
           items == sanitizedItems(analyzedItems.list)
       IN  handleSaveEntry(IF selectedImage = "" THEN foodEntry(id, ts, items)
                           ELSE foodEntryWithImage(id, ts, items, selectedImage),
                           logs, editingLog, estimating)
    /\ UNCHANGED <<now, profile>>

saveNoteLog(textInput) ==
    /\ UIReady
    /\ tabShown("note")
    /\ CanSave
    /\ handleSaveEntry(noteEntry(entryId(editingLog), entryTimestamp(editingLog), textInput),
                       logs, editingLog, estimating)
    /\ UNCHANGED <<now, profile>>

intensityMultipliersAllDefault(intensity) == 6

\* the local estimate of estimateExerciseCalories when the request failed
intensityMultipliers(intensity) ==
    CASE intensity = "low" -> 4
      [] intensity = "medium" -> 8
      [] intensity = "high" -> 12
      [] OTHER -> 6

\* Math.round((met * 3.5 * weightKg) / 200 * duration); NaN for a duration NaN
offlineEstimate(intensity, weightKg, duration) ==
    IF isNaN(duration) THEN NaN
    ELSE Num(Round(intensityMultipliers(intensity) * 35 * weightKg * duration.num, 10 * 200))

\* the entry of saveExerciseLog for calories, the number typed or what
\* estimateExerciseCalories returned: caloriesBurned is calories || 0
exerciseOf(initialEntry, exName, exDuration, exIntensity, calories) ==
    exerciseEntry(entryId(initialEntry), entryTimestamp(initialEntry), exName,
                  parseInt(exDuration), orZero(calories), exIntensity)

\* the handler returns at once unless a name and a duration are entered;
\* parseInt(exCals) is a number other than 0: the entry is saved at once;
\* otherwise the handler waits for estimateExerciseCalories, holding the
\* values of the render it started in
saveExerciseLog(x) ==
    /\ UIReady
    /\ tabShown("exercise")
    /\ CanSave
    /\ estimating = Null
    /\ x.exName # <<>>
    /\ x.exDuration # <<>>
    /\ LET calories == parseInt(x.exCals)
       IN  IF ~isNaN(calories) /\ calories.num # 0
           THEN /\ handleSaveEntry(exerciseOf(editingLog, x.exName, x.exDuration,
                                              x.exIntensity, calories),
                                   logs, editingLog, estimating)
                /\ UNCHANGED <<now, profile>>
           ELSE /\ estimating' = [exName |-> x.exName, exDuration |-> x.exDuration,
                                  exIntensity |-> x.exIntensity,
                                  logs |-> logs, editingLog |-> editingLog,
                                  weightKg |-> profile.weightKg]
                /\ UNCHANGED <<now, logs, profile, view, editingLog, dash, feedbackModal,
                               feedbackCalls, analyzedItems, isAnalyzing>>
                /\ UNCHANGED svcVars

\* estimateExerciseCalories returned and saveExerciseLog goes on: with
\* result.calories || 0 of the estimator's answer, or with the local estimate
\* after the requests failed
EstimateDone(answered, answer) ==
    /\ estimating # Null
    /\ LET c == estimating
           calories == IF answered THEN orZero(answer)
                       ELSE offlineEstimate(c.exIntensity, c.weightKg, parseInt(c.exDuration))
       IN  handleSaveEntry(exerciseOf(c.editingLog, c.exName, c.exDuration, c.exIntensity,
                                      calories),
                           c.logs, c.editingLog, Null)
    /\ UNCHANGED <<now, profile>>

\* getInstantFeedback answered: result.text
FeedbackDone(k, message) ==
    /\ k \in DOMAIN outbox
    /\ outbox[k].action = "getInstantFeedback"
    /\ feedbackCalls' = feedbackCalls - 1
    /\ outbox' = withoutRequest(k)
    /\ feedbackModal' = [isOpen |-> TRUE, isLoading |-> FALSE, message |-> [text |-> message]]
    /\ UNCHANGED <<now, logs, profile, view, editingLog, dash, analyzedItems,
                   isAnalyzing, estimating>>
    /\ UNCHANGED svcButOutbox

FeedbackFailClosesModal(k) ==
    /\ k \in DOMAIN outbox
    /\ outbox[k].action = "getInstantFeedback"
    /\ feedbackCalls' = feedbackCalls - 1
    /\ outbox' = withoutRequest(k)
    /\ feedbackModal' = [isOpen |-> FALSE, isLoading |-> FALSE, message |-> Null]
    /\ UNCHANGED <<now, logs, profile, view, editingLog, dash, analyzedItems,
                   isAnalyzing, estimating>>
    /\ UNCHANGED svcButOutbox

\* getInstantFeedback threw: the catch of handleSaveEntry
FeedbackFail(k) ==
    /\ k \in DOMAIN outbox
    /\ outbox[k].action = "getInstantFeedback"
    /\ feedbackCalls' = feedbackCalls - 1
    /\ outbox' = withoutRequest(k)
    /\ feedbackModal' = [isOpen |-> TRUE, isLoading |-> FALSE,
                         message |-> [text |-> "Entry saved successfully!"]]
    /\ UNCHANGED <<now, logs, profile, view, editingLog, dash, analyzedItems,
                   isAnalyzing, estimating>>
    /\ UNCHANGED svcButOutbox

FeedbackMessages == {"Nice choice!"}

CloseFeedback ==
    /\ feedbackModal.isOpen
    /\ ~feedbackModal.isLoading
    /\ feedbackModal' = [feedbackModal EXCEPT !.isOpen = FALSE]
    /\ UNCHANGED <<now, logs, profile, view, editingLog, dash, feedbackCalls,
                   analyzedItems, isAnalyzing, estimating>>
    /\ UNCHANGED svcVars

filterOutId(ls, id) ==
    LET RECURSIVE go(_)
        go(s) == IF s = <<>> THEN <<>>
                 ELSE IF Head(s).id # id THEN <<Head(s)>> \o go(Tail(s))
                 ELSE go(Tail(s))
    IN  go(ls)

handleDeleteLog(k, confirmed) ==
    /\ UIReady
    /\ view = "history"
    /\ k \in DOMAIN logs
    /\ setStore(IF confirmed THEN filterOutId(logs, logs[k].id) ELSE logs,
                editingLog, estimating)
    /\ UNCHANGED <<now, profile, view, dash, feedbackModal, feedbackCalls,
                   analyzedItems, isAnalyzing>>
    /\ UNCHANGED svcVars

\* the copy shares the items of the entry
handleCopyLog(k) ==
    /\ UIReady
    /\ view = "history"
    /\ k \in DOMAIN logs
    /\ Len(logs) < MaxLogs
    /\ setStore(<<[logs[k] EXCEPT !.id = idOf(now), !.timestamp = now]>> \o logs,
                editingLog, estimating)
    /\ feedbackModal' = [isOpen |-> TRUE, isLoading |-> FALSE,
                         message |-> [text |-> "Copied to today's log!"]]
    /\ UNCHANGED <<now, profile, view, dash, feedbackCalls, analyzedItems, isAnalyzing>>
    /\ UNCHANGED svcVars

SelectedImages == {""}

\* a launch over a Log Store that was saved before
Init ==
    /\ now = StartTime
    /\ logs \in StoredLogs
    /\ profile = INITIAL_PROFILE
    /\ InitForm

\* the first launch: nothing is saved
InitEmpty ==
    /\ now = StartTime
    /\ logs = <<>>
    /\ profile = INITIAL_PROFILE
    /\ InitForm

\* the steps of a session in the entry form that saves nothing
NextForm ==
    \/ DashboardMount
    \/ GoAdd
    \/ ViewHistory
    \/ \E k \in DOMAIN logs : handleEditLog(k)
    \/ onCancel
    \/ handleAnalyzeFood
    \/ \E result \in AnalyzeResults : AnalyzeDone(result)
    \/ AnalyzeFail
    \/ \E index \in 1..MaxItems, newQty \in Quantities : updateItemQuantity(index, newQty)
    \/ \E idx \in 1..MaxItems : RemoveItem(idx)
    \/ AddManualItem
    \/ Back

\* the steps of a session that saves the items as the estimator gave them, and
\* in which the user only moves between the views while an estimate is awaited
NextStore ==
    \/ DashboardMount
    \/ Tick
    \/ GoDashboard
    \/ GoAdd
    \/ GoProfile
    \/ ViewHistory
    \/ \E k \in DOMAIN logs : handleEditLog(k)
    \/ onCancel
    \/ \E x \in ExerciseInputs : saveExerciseLog(x)
    \/ \E answer \in EstimateAnswers : EstimateDone(TRUE, answer)
    \/ EstimateDone(FALSE, 0)
    \/ \E k \in DOMAIN outbox, message \in FeedbackMessages : FeedbackDone(k, message)
    \/ \E k \in DOMAIN outbox : FeedbackFail(k)
    \/ CloseFeedback
    \/ /\ estimating = Null
       /\ \/ \E g \in ProfileGoals : SetProfile("goal", g)
          \/ handleAnalyzeFood
          \/ \E result \in AnalyzeResults : AnalyzeDone(result)
          \/ AnalyzeFail
          \/ \E selectedImage \in SelectedImages : saveFoodLog(selectedImage)
          \/ \E textInput \in NoteTexts : saveNoteLog(textInput)
          \/ \E k \in DOMAIN logs, confirmed \in BOOLEAN : handleDeleteLog(k, confirmed)
          \/ \E k \in DOMAIN logs : handleCopyLog(k)

SpecForm == Init /\ [][NextForm]_vars

SpecStore == InitEmpty /\ [][NextStore]_vars

\* the steps of a session with notes and exercises in which the user goes on
\* using the application while an estimate is awaited
NextAwait ==
    \/ DashboardMount
    \/ Tick
    \/ GoDashboard
    \/ GoAdd
    \/ ViewHistory
    \/ \E k \in DOMAIN logs : handleEditLog(k)
    \/ onCancel
    \/ \E k \in DOMAIN outbox, message \in FeedbackMessages : FeedbackDone(k, message)
    \/ \E k \in DOMAIN outbox : FeedbackFail(k)
    \/ CloseFeedback
    \/ \E k \in DOMAIN logs, confirmed \in BOOLEAN : handleDeleteLog(k, confirmed)
    \/ \E k \in DOMAIN logs : handleCopyLog(k)
    \/ /\ feedbackCalls < MaxCalls
       /\ \/ \E x \in ExerciseInputs : saveExerciseLog(x)
          \/ \E answer \in EstimateAnswers : EstimateDone(TRUE, answer)
          \/ EstimateDone(FALSE, 0)
          \/ \E textInput \in NoteTexts : saveNoteLog(textInput)

SpecAwait == InitEmpty /\ [][NextAwait]_vars

----------------------------------------------------------------------------
(* Properties of the Dashboard projections, checked under SpecDash *)

\* the sum of F(x) over the x of a finite set S
SumOver(S, F(_)) ==
    LET RECURSIVE go(_)
        go(T) == IF T = {} THEN 0
                 ELSE LET x == CHOOSE x \in T : TRUE IN F(x) + go(T \ {x})
    IN  go(S)

\* positions of the Log Store holding an entry of the given type and day
EntriesOn(type, d) ==
    { k \in DOMAIN logs : logs[k].type = type /\ Day(logs[k].timestamp) = d }

ItemPositions(k) == IF has(logs[k], "items") THEN DOMAIN logs[k].items ELSE {}

CaloriesOf(k) == SumOver(ItemPositions(k), LAMBDA i : logs[k].items[i].calories)
ProteinOf(k) == SumOver(ItemPositions(k), LAMBDA i : logs[k].items[i].protein)
CarbsOf(k) == SumOver(ItemPositions(k), LAMBDA i : logs[k].items[i].carbs)
FatOf(k) == SumOver(ItemPositions(k), LAMBDA i : logs[k].items[i].fat)
BurnedOf(k) == IF has(logs[k], "exercise") THEN logs[k].exercise.caloriesBurned.num ELSE 0

\* C1: the today totals are the sums of calories, protein, carbs and fat over
\* the items of the food entries of the current day and of caloriesBurned over
\* the exercise entries of that day; notes and other days add nothing, and a
\* day without entries gives all-zero totals.
C1_TodayTotals ==
    dash # Null =>
        LET food == EntriesOn("food", Day(now))
            exercise == EntriesOn("exercise", Day(now))
        IN  /\ dash.todayTotals.calories = SumOver(food, CaloriesOf)
            /\ dash.todayTotals.protein = SumOver(food, ProteinOf)
            /\ dash.todayTotals.carbs = SumOver(food, CarbsOf)
            /\ dash.todayTotals.fat = SumOver(food, FatOf)
            /\ dash.todayTotals.burned = Num(SumOver(exercise, BurnedOf))
            /\ (food \cup exercise = {} => dash.todayTotals = zeroTotals)

\* a food entry of two items today next to a food entry of another day
C1_Witness ==
    /\ dash # Null
    /\ \E k \in EntriesOn("food", Day(now)) : Cardinality(ItemPositions(k)) = 2
    /\ \E k \in DOMAIN logs :
          /\ logs[k].type = "food"
          /\ Day(logs[k].timestamp) # Day(now)
          /\ CaloriesOf(k) > 0
    /\ dash.todayTotals.calories = H(299)
    /\ dash.todayTotals.protein = 850

\* c is the letter d, in lower or upper case (d a lower-case letter)
SameLetter(c, d) ==
    \/ c = d
    \/ \E i \in DOMAIN LowerChars : LowerChars[i] = d /\ UpperChars[i] = c

\* the name holds the keyword at some position, whatever the case
ContainsIgnoringCase(name, keyword) ==
    \E start \in 1..Len(name) :
        \A j \in 1..Len(keyword) :
            /\ start + j - 1 <= Len(name)
            /\ SameLetter(name[start + j - 1], keyword[j])

\* C2: exerciseFocus is true exactly when an exercise entry of the current day
\* has intensity high or a name containing, in any case, "weight", "strength"
\* or "lift"; "Deadlift Strength Session" with intensity low gives true.
C2_TrainingLoad ==
    dash # Null =>
        /\ dash.exerciseFocus <=>
              \E k \in EntriesOn("exercise", Day(now)) :
                  /\ has(logs[k], "exercise")
                  /\ \/ logs[k].exercise.intensity = "high"
                     \/ ContainsIgnoringCase(logs[k].exercise.name, strWeight)
                     \/ ContainsIgnoringCase(logs[k].exercise.name, strStrength)
                     \/ ContainsIgnoringCase(logs[k].exercise.name, strLift)
        /\ (\E k \in EntriesOn("exercise", Day(now)) :
                /\ logs[k].exercise.name = nameDeadlift
                /\ logs[k].exercise.intensity = "low") => dash.exerciseFocus

\* the only exercise of today is "WEIGHTS" at medium intensity, next to a food entry
C2_Witness ==
    /\ dash # Null
    /\ dash.exerciseFocus
    /\ EntriesOn("food", Day(now)) # {}
    /\ \A k \in EntriesOn("exercise", Day(now)) :
          logs[k].exercise.name = nameWeights /\ logs[k].exercise.intensity = "medium"

\* C9: the trend has exactly 7 points, oldest first; point i (0..6) is the day
\* today - 6 + i and holds the calories of the food entries of that day.
C9_TrendWindow ==
    dash # Null =>
        /\ Len(dash.chartData) = 7
        /\ \A i \in 0..6 :
              LET d == Day(now) - 6 + i
              IN  /\ dash.chartData[i + 1].calories = SumOver(EntriesOn("food", d), CaloriesOf)
                  /\ dash.chartData[i + 1].name = weekdayNames[(d % 7) + 1]

\* food six days ago, another entry seven days ago: only the first is charted
C9_Witness ==
    /\ dash # Null
    /\ dash.chartData[1].calories > 0
    /\ \A i \in 2..7 : dash.chartData[i].calories = 0
    /\ \E k \in DOMAIN logs :
          /\ Day(logs[k].timestamp) = Day(now) - 7
          /\ logs[k].type = "food"
          /\ CaloriesOf(k) > 0

----------------------------------------------------------------------------
(* Properties of the target engine, checked under SpecEngine *)

\* r is Math.round(n / d): the integer with r - 1/2 <= n/d < r + 1/2
IsRounded(r, n, d) == (2 * r - 1) * d <= 2 * n /\ 2 * n < (2 * r + 1) * d

\* 4 * bmr by the Mifflin-St Jeor table: +5 male, -161 female and other
ExpectedBmr4 ==
    40 * profile.weightKg + 25 * profile.heightCm - 20 * profile.age
        + (CASE profile.gender = "male" -> 20
             [] profile.gender = "female" -> 0 - 644
             [] profile.gender = "other" -> 0 - 644)

\* 1000 * the activity multiplier
ExpectedMultiplier ==
    [sedentary |-> 1200, light |-> 1375, moderate |-> 1550, active |-> 1725,
     athlete |-> 1900][profile.activityLevel]

ExpectedAdjustment(focus) ==
    CASE profile.goal = "lose_fat" /\ focus -> 0 - 250
      [] profile.goal = "lose_fat" /\ ~focus -> 0 - 500
      [] profile.goal = "gain_muscle" -> 300
      [] profile.goal = "maintain" -> 0

\* 10 * the protein factor
ExpectedProteinFactor(focus) ==
    CASE profile.goal = "lose_fat" -> IF focus THEN 20 ELSE 18
      [] profile.goal = "gain_muscle" -> IF focus THEN 22 ELSE 20
      [] profile.goal = "maintain" -> IF focus THEN 16 ELSE 14

\* C3: calorieTarget = TDEE + adjustment, TDEE = round(bmr * multiplier), with
\* the bmr formula (other takes the female offset), the five multipliers and
\* the adjustments -250 / -500 / +300 / 0.
C3_CalorieTarget ==
    dash # Null =>
        IsRounded(dash.targets.calorieTarget - ExpectedAdjustment(dash.exerciseFocus),
                  ExpectedBmr4 * ExpectedMultiplier, 4000)

\* gender other, lose_fat on a training day, bmr * multiplier = 1875.5
C3_Witness ==
    /\ dash # Null
    /\ profile.gender = "other"
    /\ profile.goal = "lose_fat"
    /\ dash.exerciseFocus
    /\ profile.activityLevel = "light"
    /\ (ExpectedBmr4 * ExpectedMultiplier) % 4000 = 2000
    /\ dash.targets.calorieTarget = 1876 - 250

\* C4: targetProtein = round(weightKg * proteinFactor), the factor being
\* 2.0/1.8 (lose_fat), 2.2/2.0 (gain_muscle), 1.6/1.4 (maintain) with/without
\* training load; the default 1.2 is never used.
C4_TargetProtein ==
    dash # Null =>
        /\ IsRounded(dash.targets.macroTargets.protein,
                     profile.weightKg * ExpectedProteinFactor(dash.exerciseFocus), 10)
        /\ (profile.weightKg >= 70 =>
                ~IsRounded(dash.targets.macroTargets.protein, profile.weightKg * 12, 10))

\* maintain on a training day with a weight whose product is rounded: 72 * 1.6
C4_Witness ==
    /\ dash # Null
    /\ profile.goal = "maintain"
    /\ dash.exerciseFocus
    /\ profile.weightKg = 72
    /\ dash.targets.macroTargets.protein = 115

\* C5: targetFat = round(calorieTarget * 0.25 / 9), targetCarbs =
\* max(0, round((calorieTarget - 4*targetProtein - 9*targetFat) / 4)), and
\* targetCarbs is never negative.
C5_FatAndCarbs ==
    dash # Null =>
        LET t == dash.targets.calorieTarget
            m == dash.targets.macroTargets
            rest == t - 4 * m.protein - 9 * m.fat
        IN  /\ IsRounded(m.fat, t, 36)
            /\ m.carbs >= 0
            /\ \/ m.carbs > 0 /\ IsRounded(m.carbs, rest, 4)
               \/ m.carbs = 0 /\ 2 * rest < 4

\* a profile whose protein and fat alone exceed the calorie target
C5_Witness ==
    /\ dash # Null
    /\ dash.targets.calorieTarget
          - 4 * dash.targets.macroTargets.protein
          - 9 * dash.targets.macroTargets.fat < 0 - 4
    /\ dash.targets.macroTargets.carbs = 0

\* C6: the advice message is the workout text exactly for lose_fat with
\* training load, the growth text exactly for gain_muscle with training load,
\* and empty in every other case.
C6_AdviceMessage ==
    dash # Null =>
        /\ (dash.targets.adviceMessage
                = "Workout detected: Deficit reduced & Protein bumped for recovery.")
              <=> (profile.goal = "lose_fat" /\ dash.exerciseFocus)
        /\ (dash.targets.adviceMessage = "Great work! Fuel up for growth.")
              <=> (profile.goal = "gain_muscle" /\ dash.exerciseFocus)
        /\ (dash.targets.adviceMessage = "")
              <=> (~dash.exerciseFocus \/ profile.goal = "maintain")

\* maintain on a training day: no message
C6_Witness ==
    /\ dash # Null
    /\ profile.goal = "maintain"
    /\ dash.exerciseFocus
    /\ dash.targets.adviceMessage = ""

IsReferenceProfile ==
    /\ profile.weightKg = 70
    /\ profile.heightCm = 175
    /\ profile.age = 30
    /\ profile.gender = "male"
    /\ profile.activityLevel = "moderate"

\* C7 as claimed: the reference profile (70 kg, 175 cm, 30, male, moderate)
\* gets 2625 / 98 / 73 / 394 for maintain without training load and
\* 2375 / 140 / 66 / 305 with a message for lose_fat with training load.
C7_AsClaimed ==
    (dash # Null /\ IsReferenceProfile) =>
        /\ (profile.goal = "maintain" /\ ~dash.exerciseFocus) =>
              /\ dash.targets.calorieTarget = 2625
              /\ dash.targets.macroTargets = [protein |-> 98, carbs |-> 394, fat |-> 73]
        /\ (profile.goal = "lose_fat" /\ dash.exerciseFocus) =>
              /\ dash.targets.calorieTarget = 2375
              /\ dash.targets.macroTargets = [protein |-> 140, carbs |-> 305, fat |-> 66]
              /\ dash.targets.adviceMessage # ""

\* C7 amended: bmr = 700 + 1093.75 - 150 + 5 = 1648.75 and TDEE =
\* round(1648.75 * 1.55) = 2556, so the reference profile gets
\* 2556 / 98 / 71 / 381 for maintain without training load and
\* 2306 / 140 / 64 / 293 with a message for lose_fat with training load.
C7_ReferenceProfile ==
    (dash # Null /\ IsReferenceProfile) =>
        /\ (profile.goal = "maintain" /\ ~dash.exerciseFocus) =>
              /\ dash.targets.calorieTarget = 2556
              /\ dash.targets.macroTargets = [protein |-> 98, carbs |-> 381, fat |-> 71]
        /\ (profile.goal = "lose_fat" /\ dash.exerciseFocus) =>
              /\ dash.targets.calorieTarget = 2306
              /\ dash.targets.macroTargets = [protein |-> 140, carbs |-> 293, fat |-> 64]
              /\ dash.targets.adviceMessage # ""

\* the reference profile with lose_fat, mounted on a training day
C7_Witness ==
    /\ dash # Null
    /\ IsReferenceProfile
    /\ profile.goal = "lose_fat"
    /\ dash.exerciseFocus
    /\ dash.targets.calorieTarget = 2306

----------------------------------------------------------------------------
(* Properties of the application, checked under SpecStore *)

\* C8: the targets a mounted Dashboard shows are a function of the profile
\* and of the training-load signal it holds, and of nothing else: in every
\* reachable state they are the value of the engine (an operator of these two
\* arguments) at the state's profile and signal, whatever the Log Store
\* holds and whatever happened before.  Two states with the same profile and
\* signal therefore show the same targets, and a change of the Log Store that
\* leaves the signal as it was leaves the targets as they were.
C8_TargetsFunction ==
    dash # Null => dash.targets = targetEngine(profile, dash.exerciseFocus)

\* a Dashboard over a Log Store that grew by a food entry and a note since
\* startup, without training load: it shows the targets of the empty store
C8_Witness ==
    /\ dash # Null
    /\ ~dash.exerciseFocus
    /\ profile = INITIAL_PROFILE
    /\ Len(logs) = 2
    /\ logs[1].type = "note"
    /\ logs[2].type = "food" /\ logs[2].timestamp = StartTime
    /\ dash.todayTotals.calories = H(260) + H(119)
    /\ dash.targets.calorieTarget = 2556

----------------------------------------------------------------------------
(* Properties of the entry form, checked under SpecForm *)

\* what updateItemQuantity(index, q) leaves of the list old in the list new
QuantityChanged(old, new, index, q) ==
    /\ DOMAIN new = DOMAIN old
    /\ \A j \in DOMAIN old : j # index => new[j] = old[j]
    /\ new[index].quantity = q
    /\ new[index].baseCalories = old[index].baseCalories
    /\ new[index].baseProtein = old[index].baseProtein
    /\ new[index].baseCarbs = old[index].baseCarbs
    /\ new[index].baseFat = old[index].baseFat
    /\ new[index].calories % H(1) = 0
    /\ IsRounded(new[index].calories \div H(1), old[index].baseCalories * q, H(1) * H(1))
    /\ new[index].protein % 10 = 0
    /\ IsRounded(new[index].protein \div 10, old[index].baseProtein * q, 10 * H(1))
    /\ new[index].carbs % 10 = 0
    /\ IsRounded(new[index].carbs \div 10, old[index].baseCarbs * q, 10 * H(1))
    /\ new[index].fat % 10 = 0
    /\ IsRounded(new[index].fat \div 10, old[index].baseFat * q, 10 * H(1))

\* C10: every step of updateItemQuantity with a quantity q >= 0 leaves the
\* item at the index with quantity q, calories = round(baseCalories * q) (an
\* integer) and protein, carbs and fat = round(base * q * 10) / 10 (one
\* decimal), and leaves its base values and every other item of the form as
\* they were.
C10_QuantityChange ==
    [][\A index \in 1..MaxItems, q \in Quantities :
          updateItemQuantity(index, q) =>
              QuantityChanged(analyzedItems.list, analyzedItems'.list, index, q)]_vars

\* the oil of the estimator's answer (119 kcal, 13.5 g fat for 1 serving) set
\* to 1.5 servings: 178.5 rounds to 179 kcal and 20.25 g to 20.3 g, next to
\* the rice as the estimator gave it
C10_Witness ==
    /\ analyzedItems # Null
    /\ Len(analyzedItems.list) = 2
    /\ analyzedItems.list[1].name = "Rice"
    /\ analyzedItems.list[1].quantity = H(2) /\ analyzedItems.list[1].calories = H(260)
    /\ analyzedItems.list[2].name = "Oil"
    /\ analyzedItems.list[2].quantity = 150
    /\ analyzedItems.list[2].calories = H(179)
    /\ analyzedItems.list[2].fat = 2030
    /\ analyzedItems.list[2].baseCalories = H(119)

----------------------------------------------------------------------------
(* Backup and restore (the Profile view)                                    *)

msgRestored == "Data restored successfully!"
msgInvalidBackup == "Invalid backup file."

\* JSON.stringify({ profile, logs, chatHistory }): a text, given by the value
\* it denotes
exportedText(p, ls, ch) ==
    [json |-> [object |-> [profile |-> p, logs |-> jsonLogs(ls), chatHistory |-> ch]]]

\* the logs of a parsed text as new objects: the items get identities that
\* no object of the state has
parsedLogs(ls) ==
    LET RECURSIVE before(_)
        before(k) == IF k = 1 THEN 0 ELSE before(k - 1) + Len(itemsOf(ls[k - 1]))
    IN  [k \in DOMAIN ls |->
            IF has(ls[k], "items")
            THEN [ls[k] EXCEPT !.items = [i \in DOMAIN ls[k].items |->
                                   [ls[k].items[i] EXCEPT !.oid = newOid(before(k) + i)]]]
            ELSE ls[k]]

\* the files the user can pick: an empty file, a text that is no JSON, the
\* JSON texts null and 5, objects with none or one of the fields
ImportFiles ==
    { [empty |-> TRUE],
      [raw |-> "{profile:"],
      [json |-> Null],
      [json |-> Num(5)],
      [json |-> [object |-> [version |-> 1]]],
      [json |-> [object |-> [logs |-> <<noteEntry("7", 7, "from a backup")>>]]],
      [json |-> [object |-> [profile |-> [INITIAL_PROFILE EXCEPT !.goal = "gain_muscle"]]]],
      [json |-> [object |-> [chatHistory |-> <<>>]]] }

svcButBackup == <<chatHistory, advice, isAdviceLoading, isChatLoading, outbox, alertShown,
                  root, saved, api, server>>

handleExportData ==
    /\ UIReady
    /\ view = "profile"
    /\ backup' = [text |-> exportedText(profile, logs, chatHistory),
                  profile |-> profile, logs |-> logs, chatHistory |-> chatHistory]
    /\ UNCHANGED appVars
    /\ UNCHANGED svcButBackup

\* fileReader.onload of handleImportData; JSON.parse throws on a text that is
\* no JSON, and reading a property of null throws
handleImportData(file) ==
    /\ UIReady
    /\ view = "profile"
    /\ alertShown = Null
    /\ IF has(file, "empty")
       THEN UNCHANGED <<logs, editingLog, estimating, profile, chatHistory, alertShown>>
       ELSE IF has(file, "raw") \/ file.json = Null
       THEN /\ alertShown' = [text |-> msgInvalidBackup]
            /\ UNCHANGED <<logs, editingLog, estimating, profile, chatHistory>>
       ELSE LET parsed == IF has(file.json, "object") THEN file.json.object ELSE file.json
            IN  /\ profile' = IF has(parsed, "profile") THEN parsed.profile ELSE profile
                /\ setStore(IF has(parsed, "logs") THEN parsedLogs(parsed.logs) ELSE logs,
                            editingLog, estimating)
                /\ chatHistory' = IF has(parsed, "chatHistory") THEN parsed.chatHistory
                                  ELSE chatHistory
                /\ alertShown' = [text |-> msgRestored]
    /\ UNCHANGED <<now, view, dash, feedbackModal, feedbackCalls, analyzedItems, isAnalyzing>>
    /\ UNCHANGED <<advice, isAdviceLoading, isChatLoading, outbox, backup, root, saved, api, server>>

\* the user closes the alert; no script runs while it is shown
dismissAlert ==
    /\ alertShown # Null
    /\ alertShown' = Null
    /\ UNCHANGED appVars
    /\ UNCHANGED <<chatHistory, advice, isAdviceLoading, isChatLoading, outbox, backup,
                   root, saved, api, server>>

\* what is entered in the exercise tab in a session with backups: a duration
\* of half a minute, with the calories
BackupExerciseInputs ==
    { [exName |-> nameRun, exDuration |-> <<".", "5">>, exIntensity |-> "low",
       exCals |-> <<"2", "0", "0">>] }

\* the files at hand: the ones above and the file of the last export
FilesAtHand == ImportFiles \cup (IF backup = Null THEN {} ELSE {backup.text})

NextBackup ==
    \/ dismissAlert
    \/ /\ alertShown = Null
       /\ \/ DashboardMount
          \/ GoAdd
          \/ GoProfile
          \/ \E textInput \in NoteTexts : saveNoteLog(textInput)
          \/ \E x \in BackupExerciseInputs : saveExerciseLog(x)
          \/ \E k \in DOMAIN outbox : FeedbackFail(k)
          \/ CloseFeedback
          \/ SetProfile("goal", "lose_fat")
          \/ handleExportData
          \/ \E file \in FilesAtHand : handleImportData(file)

SpecBackup == InitEmpty /\ [][NextBackup]_vars

----------------------------------------------------------------------------
(* Personalized advice and chat: the Log Store as history and context       *)

msgAdviceFallback == "Could not generate advice right now. Please try again later."
msgChatError == "Error connecting to assistant: Failed to fetch"

\* what the estimator answers, and what the service returns when callApi threw
AdviceTexts == {"Eat more protein.", msgAdviceFallback}
ChatTexts == {"Try oats.", msgChatError}

\* what the user types into the chat
ChatInputs == {"What should I eat?"}

\* logs.slice(0, n)
slice(ls, n) == SubSeq(ls, 1, IF Len(ls) < n THEN Len(ls) ELSE n)

\* updatedHistory.map(msg => ({ role, parts: [{ text }] }))
historyContext(history) ==
    [m \in DOMAIN history |-> [role |-> history[m].role,
                               parts |-> <<[text |-> history[m].text]>>]]

handleGenerateAdvice ==
    /\ UIReady
    /\ view = "dashboard"
    /\ ~isAdviceLoading
    /\ isAdviceLoading' = TRUE
    /\ outbox' = Append(outbox, request("getPersonalizedAdvice",
                                        [logs |-> jsonLogs(stripImages(logs)),
                                         profile |-> profile]))
    /\ UNCHANGED appVars
    /\ UNCHANGED <<chatHistory, advice, isChatLoading, alertShown, backup, root, saved, api, server>>

\* getPersonalizedAdvice returned (it catches what callApi throws)
AdviceDone(k, text) ==
    /\ k \in DOMAIN outbox
    /\ outbox[k].action = "getPersonalizedAdvice"
    /\ outbox' = withoutRequest(k)
    /\ advice' = [text |-> text]
    /\ isAdviceLoading' = FALSE
    /\ UNCHANGED appVars
    /\ UNCHANGED <<chatHistory, isChatLoading, alertShown, backup, root, saved, api, server>>

\* the request holds the updatedHistory of the handler that waits for it
handleSendChatMessage(text) ==
    /\ UIReady
    /\ view = "chat"
    /\ ~isChatLoading
    /\ Len(chatHistory) + 2 <= MaxMessages
    /\ LET newUserMsg == [id |-> idOf(now), role |-> "user", text |-> text, timestamp |-> now]
           updatedHistory == Append(chatHistory, newUserMsg)
           recentLogs == stripImages(slice(logs, 20))
       IN  /\ chatHistory' = updatedHistory
           /\ outbox' = Append(outbox,
                  [action |-> "chatWithNutritionist",
                   payload |-> [history |-> historyContext(updatedHistory),
                                message |-> text,
                                context |-> [profile |-> profile,
                                             logs |-> jsonLogs(recentLogs)]],
                   updatedHistory |-> updatedHistory])
    /\ isChatLoading' = TRUE
    /\ UNCHANGED appVars
    /\ UNCHANGED <<advice, isAdviceLoading, alertShown, backup, root, saved, api, server>>

\* the answer is appended and the loading flag is left as it is
ChatDoneKeepsLoading(k, responseText) ==
    /\ k \in DOMAIN outbox
    /\ outbox[k].action = "chatWithNutritionist"
    /\ outbox' = withoutRequest(k)
    /\ chatHistory' = Append(outbox[k].updatedHistory,
                             [id |-> idOf(now + 1), role |-> "model",
                              text |-> responseText, timestamp |-> now])
    /\ UNCHANGED isChatLoading
    /\ UNCHANGED appVars
    /\ UNCHANGED <<advice, isAdviceLoading, alertShown, backup, root, saved, api, server>>

\* chatWithNutritionist returned (it catches what callApi throws)
ChatDone(k, responseText) ==
    /\ k \in DOMAIN outbox
    /\ outbox[k].action = "chatWithNutritionist"
    /\ outbox' = withoutRequest(k)
    /\ chatHistory' = Append(outbox[k].updatedHistory,
                             [id |-> idOf(now + 1), role |-> "model",
                              text |-> responseText, timestamp |-> now])
    /\ isChatLoading' = FALSE
    /\ UNCHANGED appVars
    /\ UNCHANGED <<advice, isAdviceLoading, alertShown, backup, root, saved, api, server>>

handleClearChat ==
    /\ UIReady
    /\ view = "chat"
    /\ chatHistory' = <<>>
    /\ UNCHANGED appVars
    /\ UNCHANGED <<advice, isAdviceLoading, isChatLoading, outbox, alertShown, backup,
                   root, saved, api, server>>

\* the image of a photo as a data URL
imageJpeg == "data:image/jpeg;base64,/9j/4AAQ"

ContextImages == {"", imageJpeg}

\* the Log Stores found in localStorage at the launch: none, a meal with its
\* photo, and a note above the meal
ContextLogs ==
    { <<>>,
      << foodEntryWithImage("s1", NoonOf(StartDay),
                            << foodItem(1, "Rice", H(2), H(260), 500, 5720, 80) >>,
                            imageJpeg) >>,
      << noteEntry("s2", NoonOf(StartDay) + 1, "felt fine"),
         foodEntryWithImage("s1", NoonOf(StartDay),
                            << foodItem(1, "Rice", H(2), H(260), 500, 5720, 80) >>,
                            imageJpeg) >> }

InitContext ==
    /\ now = StartTime
    /\ logs \in ContextLogs
    /\ profile = INITIAL_PROFILE
    /\ InitForm

NextContext ==
    \/ DashboardMount
    \/ GoDashboard
    \/ GoChat
    \/ ViewHistory
    \/ \E k \in DOMAIN logs : handleEditLog(k)
    \/ \E selectedImage \in ContextImages : saveFoodLog(selectedImage)
    \/ \E k \in DOMAIN outbox, message \in FeedbackMessages : FeedbackDone(k, message)
    \/ CloseFeedback
    \/ handleGenerateAdvice
    \/ \E k \in DOMAIN outbox, text \in AdviceTexts : AdviceDone(k, text)
    \/ \E text \in ChatInputs : handleSendChatMessage(text)
    \/ \E k \in DOMAIN outbox, responseText \in ChatTexts : ChatDone(k, responseText)
    \/ handleClearChat

SpecContext == InitContext /\ [][NextContext]_vars

----------------------------------------------------------------------------
(* Specification SpecSanitize: exercise saves over every kind of answer of  *)
(* the estimator                                                            *)

\* result.calories of the estimator's answer: a number, zero, a missing
\* field, null, a text
SanitizeAnswers ==
    { Num(250), Num(0), Undefined, Null, [str |-> <<"2", "5", "0">>],
      [str |-> <<"a", " ", "l", "o", "t">>] }

NextSanitize ==
    \/ DashboardMount
    \/ GoAdd
    \/ \E x \in ExerciseInputs : saveExerciseLog(x)
    \/ \E answer \in SanitizeAnswers : EstimateDone(TRUE, answer)
    \/ EstimateDone(FALSE, 0)
    \/ \E k \in DOMAIN outbox : FeedbackFail(k)
    \/ CloseFeedback

SpecSanitize == InitEmpty /\ [][NextSanitize]_vars

----------------------------------------------------------------------------
(* Specification SpecStartup: the launch over what localStorage holds       *)

\* what localStorage.getItem gives for a key: null (no item), the empty
\* text, a text that is no JSON, or the JSON text that an effect wrote
missingBlob == Null
emptyBlob == [empty |-> TRUE]
corruptBlob == [raw |-> "[{\"id\":\"17"]
validBlob(value) == [json |-> value]

SavedLogs == { missingBlob, emptyBlob, corruptBlob,
               validBlob(jsonLogs(<<noteEntry("s2", NoonOf(StartDay) + 1, "felt fine")>>)) }
SavedProfiles == { missingBlob, emptyBlob, corruptBlob,
                   validBlob([INITIAL_PROFILE EXCEPT !.goal = "lose_fat"]) }
SavedChats == { missingBlob, emptyBlob, corruptBlob, validBlob(<<>>) }

\* `saved ? ... : ...`: null and the empty text are false
isSaved(blob) == blob # Null /\ ~has(blob, "empty")

\* the page is loaded and App has not rendered
InitStartup ==
    /\ now = StartTime
    /\ root = "loading"
    /\ saved \in [nutriwise_logs : SavedLogs, nutriwise_profile : SavedProfiles,
                  nutriwise_chat : SavedChats]
    /\ logs = <<>>
    /\ profile = INITIAL_PROFILE
    /\ chatHistory = <<>>
    /\ view = "dashboard"
    /\ editingLog = Null
    /\ dash = Null
    /\ feedbackModal = [isOpen |-> FALSE, isLoading |-> FALSE, message |-> Null]
    /\ feedbackCalls = 0
    /\ analyzedItems = Null
    /\ isAnalyzing = FALSE
    /\ estimating = Null
    /\ advice = Null
    /\ isAdviceLoading = FALSE
    /\ isChatLoading = FALSE
    /\ outbox = <<>>
    /\ alertShown = Null
    /\ backup = Null
    /\ api = Null
    /\ server = Null

\* the first render of App: the three state initialisers run in order, and
\* JSON.parse throws on a text that is no JSON, which ends the render
AppMount ==
    /\ root = "loading"
    /\ IF \E key \in DOMAIN saved : isSaved(saved[key]) /\ has(saved[key], "raw")
       THEN /\ root' = "error"
            /\ UNCHANGED <<logs, editingLog, estimating, profile, chatHistory>>
       ELSE /\ root' = "app"
            /\ setStore(IF isSaved(saved.nutriwise_logs)
                        THEN parsedLogs(saved.nutriwise_logs.json) ELSE <<>>,
                        Null, Null)
            /\ profile' = IF isSaved(saved.nutriwise_profile)
                          THEN saved.nutriwise_profile.json ELSE INITIAL_PROFILE
            /\ chatHistory' = IF isSaved(saved.nutriwise_chat)
                              THEN saved.nutriwise_chat.json ELSE <<welcomeMessage(now)>>
    /\ UNCHANGED <<now, view, dash, feedbackModal, feedbackCalls, analyzedItems, isAnalyzing>>
    /\ UNCHANGED <<advice, isAdviceLoading, isChatLoading, outbox, alertShown, backup,
                   saved, api, server>>

\* the page is loaded again after a failed render: no effect has run, and
\* localStorage holds what it held
reload ==
    /\ root = "error"
    /\ root' = "loading"
    /\ UNCHANGED appVars
    /\ UNCHANGED <<chatHistory, advice, isAdviceLoading, isChatLoading, outbox, alertShown,
                   backup, saved, api, server>>

NextStartup ==
    \/ AppMount
    \/ reload
    \/ /\ root = "app"
       /\ \/ DashboardMount
          \/ GoAdd
          \/ GoChat
          \/ \E textInput \in NoteTexts : saveNoteLog(textInput)
          \/ \E k \in DOMAIN outbox : FeedbackFail(k)
          \/ CloseFeedback
          \/ handleClearChat

SpecStartup == InitStartup /\ [][NextStartup]_vars

----------------------------------------------------------------------------
(* Specification SpecFeedback: saves of notes and exercises, new and        *)
(* edited, with every outcome of the estimate and of the instant feedback   *)

NextFeedback ==
    \/ DashboardMount
    \/ GoAdd
    \/ ViewHistory
    \/ \E k \in DOMAIN logs : handleEditLog(k)
    \/ \E textInput \in NoteTexts : saveNoteLog(textInput)
    \/ \E x \in ExerciseInputs : saveExerciseLog(x)
    \/ \E answer \in EstimateAnswers : EstimateDone(TRUE, answer)
    \/ EstimateDone(FALSE, 0)
    \/ \E k \in DOMAIN outbox, message \in FeedbackMessages : FeedbackDone(k, message)
    \/ \E k \in DOMAIN outbox : FeedbackFail(k)
    \/ CloseFeedback

SpecFeedback == InitEmpty /\ [][NextFeedback]_vars

----------------------------------------------------------------------------
(* callApi: the transport of every request to the estimator                *)

str429 == <<"4", "2", "9">>
str503 == <<"5", "0", "3">>
strBusy == <<"b", "u", "s", "y">>
msgServerIsBusy == <<"S", "e", "r", "v", "e", "r", " ", "i", "s", " ", "b", "u", "s", "y", " ", "(", "S", "t", "a", "t", "u", "s", " ", "4", "2", "9", ")">>
msgMissingBody == <<"M", "i", "s", "s", "i", "n", "g", " ", "r", "e", "q", "u", "e", "s", "t", " ", "b", "o", "d", "y">>
msgFailedToFetch == <<"F", "a", "i", "l", "e", "d", " ", "t", "o", " ", "f", "e", "t", "c", "h">>
msgServerErrorPage == <<"I", "n", "t", "e", "r", "n", "a", "l", " ", "S", "e", "r", "v", "e", "r", " ", "E", "r", "r", "o", "r">>
msgApiRequestFailed == <<"A", "P", "I", " ", "r", "e", "q", "u", "e", "s", "t", " ", "f", "a", "i", "l", "e", "d">>

\* the call sites of callApi with their retries argument
CallSites ==
    { [action |-> "analyzeImageOrText", retries |-> 3],
      [action |-> "refineAnalyzedLogs", retries |-> 2],
      [action |-> "estimateExerciseCalories", retries |-> 2],
      [action |-> "getPersonalizedAdvice", retries |-> 1],
      [action |-> "getInstantFeedback", retries |-> 1],
      [action |-> "chatWithNutritionist", retries |-> 2] }

\* what a fetch can settle with: a response of the handler or of the
\* platform, or a rejection (no connection)
Responses ==
    { [status |-> 200, isJson |-> TRUE, body |-> [data |-> TRUE]],
      [status |-> 429, isJson |-> TRUE, body |-> [error |-> msgServerIsBusy]],
      [status |-> 503, isJson |-> FALSE, body |-> [text |-> msgServerErrorPage]],
      [status |-> 400, isJson |-> TRUE, body |-> [error |-> msgMissingBody]],
      [status |-> 500, isJson |-> TRUE, body |-> [error |-> <<>>]],
      [status |-> 500, isJson |-> FALSE, body |-> [text |-> msgServerErrorPage]],
      [rejected |-> msgFailedToFetch] }

\* `${response.status}` for the two statuses that are formatted
statusText(status) == IF status = 429 THEN str429 ELSE str503

\* the try block: the value returned, or the message of the error thrown
attempt(response) ==
    IF has(response, "rejected") THEN [error |-> response.rejected]
    ELSE IF response.status = 429 \/ response.status = 503
    THEN [error |-> SubSeq(msgServerIsBusy, 1, Len(msgServerIsBusy) - 4)
                    \o statusText(response.status) \o <<")">>]
    ELSE IF response.isJson
    THEN IF response.status \in 200..299 THEN [data |-> response.body]
         ELSE [error |-> IF response.body.error # <<>> THEN response.body.error
                         ELSE msgApiRequestFailed]
    ELSE [error |-> response.body.text]

isRateLimit(message) ==
    includes(message, str429) \/ includes(message, str503) \/ includes(message, strBusy)

svcButApi == <<chatHistory, advice, isAdviceLoading, isChatLoading, outbox, alertShown,
               backup, root, saved, server>>

\* a call of callApi enters the loop (retries >= 1 at every call site)
callApi(site) ==
    /\ IF api = Null THEN TRUE ELSE api.pc \in {"returned", "thrown"}
    /\ api' = [action |-> site.action, retries |-> site.retries, i |-> 0, pc |-> "fetch",
               responses |-> <<>>, delays |-> <<>>]
    /\ UNCHANGED appVars
    /\ UNCHANGED svcButApi

\* the catch with a backoff that starts at 1500 ms instead of 3000 ms
fetchSettledShortDelay(response) ==
    /\ api # Null
    /\ api.pc = "fetch"
    /\ LET r == attempt(response)
           seen == [api EXCEPT !.responses = Append(@, response)]
           isLastAttempt == api.i = api.retries - 1
       IN  api' = IF has(r, "data") THEN [seen EXCEPT !.pc = "returned"]
                  ELSE IF isLastAttempt THEN [seen EXCEPT !.pc = "thrown"]
                  ELSE IF ~isRateLimit(r.error) /\ api.i > 0
                  THEN [seen EXCEPT !.pc = "thrown"]
                  ELSE [seen EXCEPT !.pc = "sleep",
                                    !.delays = Append(@, 2 ^ api.i * 1500)]
    /\ UNCHANGED appVars
    /\ UNCHANGED svcButApi

\* the fetch of iteration i settles: the rest of the try block and the catch
fetchSettled(response) ==
    /\ api # Null
    /\ api.pc = "fetch"
    /\ LET r == attempt(response)
           seen == [api EXCEPT !.responses = Append(@, response)]
           isLastAttempt == api.i = api.retries - 1
       IN  api' = IF has(r, "data") THEN [seen EXCEPT !.pc = "returned"]
                  ELSE IF isLastAttempt THEN [seen EXCEPT !.pc = "thrown"]
                  ELSE IF ~isRateLimit(r.error) /\ api.i > 0
                  THEN [seen EXCEPT !.pc = "thrown"]
                  ELSE [seen EXCEPT !.pc = "sleep",
                                    !.delays = Append(@, 2 ^ (api.i + 1) * 1500)]
    /\ UNCHANGED appVars
    /\ UNCHANGED svcButApi

\* the timer of the backoff fires: the next iteration
backoffElapsed ==
    /\ api # Null
    /\ api.pc = "sleep"
    /\ api' = [api EXCEPT !.i = @ + 1, !.pc = "fetch"]
    /\ UNCHANGED appVars
    /\ UNCHANGED svcButApi

NextApi ==
    \/ \E site \in CallSites : callApi(site)
    \/ \E response \in Responses : fetchSettled(response)
    \/ backoffElapsed

SpecApi == InitEmpty /\ [][NextApi]_vars

----------------------------------------------------------------------------
(* executeWithFallback: the model fallback of the request handler          *)

CANDIDATE_MODELS ==
    << "gemini-1.5-flash", "gemini-1.5-flash-002", "gemini-1.5-flash-001", "gemini-1.5-pro" >>

strNotFound == <<"n", "o", "t", " ", "f", "o", "u", "n", "d">>
strNotSupported == <<"n", "o", "t", " ", "s", "u", "p", "p", "o", "r", "t", "e", "d">>
msgModelNotFound == <<"m", "o", "d", "e", "l", " ", "i", "s", " ", "n", "o", "t", " ", "f", "o", "u", "n", "d">>
msgNotSupported == <<"n", "o", "t", " ", "s", "u", "p", "p", "o", "r", "t", "e", "d", " ", "f", "o", "r", " ", "g", "e", "n", "e", "r", "a", "t", "e">>
msgQuota == <<"q", "u", "o", "t", "a", " ", "e", "x", "c", "e", "e", "d", "e", "d">>
msgInternal == <<"i", "n", "t", "e", "r", "n", "a", "l">>

\* what operation(model) can settle with: a result, or an error of the
\* client library (with or without a status, with or without a message)
OperationErrors ==
    { [status |-> 404, message |-> msgInternal],
      [status |-> 404],
      [status |-> 400, message |-> msgNotSupported],
      [message |-> msgModelNotFound],
      [status |-> 429, message |-> msgQuota],
      [status |-> 500, message |-> msgInternal],
      [message |-> msgInternal] }

Settlements == { [ok |-> TRUE] } \cup { [error |-> e] : e \in OperationErrors }

\* the test of the catch with the two message tests left out
isModelErrorStatusOnly(error) ==
    has(error, "status") /\ error.status = 404

\* the test of the catch: a model that is not available
isModelError(error) ==
    \/ has(error, "status") /\ error.status = 404
    \/ has(error, "message") /\ includes(error.message, strNotFound)
    \/ has(error, "message") /\ includes(error.message, strNotSupported)

svcButServer == <<chatHistory, advice, isAdviceLoading, isChatLoading, outbox, alertShown,
                  backup, root, saved, api>>

\* a call of executeWithFallback enters the loop with the first candidate
executeWithFallback ==
    /\ IF server = Null THEN TRUE ELSE server.pc \in {"returned", "thrown"}
    /\ server' = [k |-> 1, pc |-> "await", lastError |-> Null, settled |-> <<>>]
    /\ UNCHANGED appVars
    /\ UNCHANGED svcButServer

\* operation(model) of the candidate at hand settles: the return, or the
\* catch and the end of the loop
operationSettled(settlement) ==
    /\ server # Null
    /\ server.pc = "await"
    /\ LET model == CANDIDATE_MODELS[server.k]
           seen == [server EXCEPT !.settled = Append(@, settlement)]
       IN  server' =
             IF has(settlement, "ok")
             THEN [pc |-> "returned", k |-> seen.k, lastError |-> seen.lastError,
                   settled |-> seen.settled, result |-> [from |-> model]]
             ELSE IF isModelError(settlement.error)
             THEN IF server.k < Len(CANDIDATE_MODELS)
                  THEN [seen EXCEPT !.k = @ + 1, !.lastError = settlement.error]
                  ELSE [pc |-> "thrown", k |-> seen.k, lastError |-> settlement.error,
                        settled |-> seen.settled, thrown |-> settlement.error]
             ELSE [pc |-> "thrown", k |-> seen.k, lastError |-> seen.lastError,
                   settled |-> seen.settled, thrown |-> settlement.error]
    /\ UNCHANGED appVars
    /\ UNCHANGED svcButServer

NextServer ==
    \/ executeWithFallback
    \/ \E settlement \in Settlements : operationSettled(settlement)

SpecServer == InitEmpty /\ [][NextServer]_vars

----------------------------------------------------------------------------
(* Specification SpecProfile: the number fields of the profile screen      *)

\* onChange of the Age, Height and Weight fields:
\* setProfile({...profile, [field]: parseInt(e.target.value) || 0})
onChangeNumber(field, text) == SetProfile(field, orZero(parseInt(text)).num)

\* values of a number field without min: cleared, typed, stepped below 0
ProfileTexts == { <<>>, <<"3", "1">>, <<"1", "8", "0">>, <<"-", "1">> }
NumberFields == {"age", "heightCm", "weightKg"}

NextProfile ==
    \/ DashboardMount
    \/ GoProfile
    \/ GoDashboard
    \/ \E field \in NumberFields, text \in ProfileTexts : onChangeNumber(field, text)
    \/ \E g \in ProfileGoals : SetProfile("goal", g)

SpecProfile == InitEmpty /\ [][NextProfile]_vars

----------------------------------------------------------------------------
(* Specification SpecCopy: copies of stored meals and edits of the copy and *)
(* of the original                                                          *)

NextCopy ==
    \/ DashboardMount
    \/ Tick
    \/ ViewHistory
    \/ \E k \in DOMAIN logs : handleCopyLog(k)
    \/ CloseFeedback
    \/ \E k \in DOMAIN logs : handleEditLog(k)
    \/ \E index \in 1..MaxItems, newQty \in Quantities : updateItemQuantity(index, newQty)
    \/ \E selectedImage \in SelectedImages : saveFoodLog(selectedImage)
    \/ \E k \in DOMAIN outbox : FeedbackFail(k)
    \/ onCancel

SpecCopy == Init /\ [][NextCopy]_vars

----------------------------------------------------------------------------
(* Specification SpecChat: the chat screen, with every request to the       *)
(* assistant settling in the end                                            *)

\* chatWithNutritionist resolves: with the answer, or with the error text
\* once callApi has thrown
chatSettles == \E k \in DOMAIN outbox, responseText \in ChatTexts : ChatDone(k, responseText)

NextChat ==
    \/ DashboardMount
    \/ Tick
    \/ GoDashboard
    \/ GoChat
    \/ GoProfile
    \/ \E text \in ChatInputs : handleSendChatMessage(text)
    \/ chatSettles
    \/ handleClearChat

\* a fetch settles and callApi makes a bounded number of attempts, so the
\* promise of chatWithNutritionist settles: weak fairness of chatSettles
SpecChat == InitEmpty /\ [][NextChat]_vars /\ WF_vars(chatSettles)

----------------------------------------------------------------------------
(* Specification SpecExercise: exercise saves over what the two number      *)
(* fields of the exercise tab can hold                                      *)

\* the number fields have no min and no step: they hold 0, a fraction
\* written without a leading digit, and negative numbers as well
TypedDurations == { <<"3", "0">>, <<"0">>, <<".", "5">>, <<"-", "5">> }
TypedCalories == { <<"2", "0", "0">>, <<>>, <<"-", "5", "0">> }

TypedExerciseInputs ==
    [exName : {nameRun}, exDuration : TypedDurations, exIntensity : {"medium"},
     exCals : TypedCalories]

NextExercise ==
    \/ DashboardMount
    \/ GoAdd
    \/ \E x \in TypedExerciseInputs : saveExerciseLog(x)
    \/ \E answer \in EstimateAnswers : EstimateDone(TRUE, answer)
    \/ EstimateDone(FALSE, 0)
    \/ \E k \in DOMAIN outbox : FeedbackFail(k)
    \/ CloseFeedback

SpecExercise == InitEmpty /\ [][NextExercise]_vars

----------------------------------------------------------------------------
(* Specification Spec: the application with every handler *)

\* every step of the application
Next ==
    \/ NextForm
    \/ NextStore
    \/ GoChat
    \/ \E g \in ProfileGoals : SetProfile("goal", g)
    \/ handleAnalyzeFood
    \/ \E result \in AnalyzeResults : AnalyzeDone(result)
    \/ AnalyzeFail
    \/ \E selectedImage \in SelectedImages : saveFoodLog(selectedImage)
    \/ \E textInput \in NoteTexts : saveNoteLog(textInput)
    \/ \E k \in DOMAIN logs, confirmed \in BOOLEAN : handleDeleteLog(k, confirmed)
    \/ \E k \in DOMAIN logs : handleCopyLog(k)
    \/ handleGenerateAdvice
    \/ \E k \in DOMAIN outbox, text \in AdviceTexts : AdviceDone(k, text)
    \/ \E text \in ChatInputs : handleSendChatMessage(text)
    \/ \E k \in DOMAIN outbox, responseText \in ChatTexts : ChatDone(k, responseText)
    \/ handleClearChat
    \/ handleExportData
    \/ \E file \in FilesAtHand : handleImportData(file)
    \/ dismissAlert
    \/ \E field \in NumberFields, text \in ProfileTexts : onChangeNumber(field, text)
    \/ NextApi
    \/ NextServer

Spec == Init /\ [][Next]_vars

----------------------------------------------------------------------------
(* Properties of the Log Store under saves, checked under SpecAwait and     *)
(* SpecStore                                                                *)

\* an entry without the identities of its item objects
withoutOids(e) ==
    IF has(e, "items")
    THEN [e EXCEPT !.items = [i \in DOMAIN e.items |-> [e.items[i] EXCEPT !.oid = 0]]]
    ELSE e

\* the Log Store new is the Log Store old after a save that was started with
\* ed being edited (Null: with no entry being edited) at time t
SavedInto(ed, old, new, t) ==
    IF ed # Null
    THEN /\ Len(new) = Len(old)
         /\ \E k \in DOMAIN old :
               /\ old[k].id = ed.id
               /\ new[k].id = ed.id
               /\ new[k].timestamp = ed.timestamp
               /\ \A j \in DOMAIN old \ {k} : withoutOids(new[j]) = withoutOids(old[j])
    ELSE /\ Len(new) = Len(old) + 1
         /\ new[1].id = idOf(t)
         /\ new[1].timestamp = t
         /\ \A j \in DOMAIN old : withoutOids(new[j + 1]) = withoutOids(old[j])

\* a save of the entry form is handed to the Log Store in this step
SaveStep ==
    \/ \E selectedImage \in SelectedImages : saveFoodLog(selectedImage)
    \/ \E textInput \in NoteTexts : saveNoteLog(textInput)
    \/ \E x \in ExerciseInputs : saveExerciseLog(x) /\ estimating' = Null
    \/ \E answer \in EstimateAnswers : EstimateDone(TRUE, answer)
    \/ EstimateDone(FALSE, 0)

\* C11: every save of an edit keeps the edited entry's id and timestamp,
\* replaces it at its position in the Log Store and leaves the length and all
\* other entries as they are; every save with no entry being edited prepends
\* exactly one entry whose id and timestamp are the current time.  The entry
\* being edited is the one of the form that started the save.
C11_SaveKeepsStore ==
    [][SaveStep =>
         SavedInto(IF estimating # Null THEN estimating.editingLog ELSE editingLog,
                   logs, logs', now)]_vars

\* C12: all entries of the Log Store have pairwise distinct ids.
C12_DistinctIds ==
    \A j, k \in DOMAIN logs : j # k => logs[j].id # logs[k].id

----------------------------------------------------------------------------
(* Properties of the saves under failures of the estimator, checked under   *)
(* SpecFeedback (they hold under SpecStore and SpecAwait as well)           *)

\* the request that the step sent
sentNow == outbox'[Len(outbox')]

\* the step handed one entry to handleSaveEntry, which put it into the Log
\* Store, sent it for instant feedback and gave the Dashboard its aggregates
HandedOver ==
    /\ Len(outbox') = Len(outbox) + 1
    /\ sentNow.action = "getInstantFeedback"
    /\ \E k \in DOMAIN logs' : json(stripImage(logs'[k])) = sentNow.payload.entry
    /\ dash' # Null
    /\ dash'.todayTotals = todayTotals(logs', now)
    /\ dash'.targets = targetEngine(profile, hasStrength(logs', now))

GenericFeedback ==
    [isOpen |-> TRUE, isLoading |-> FALSE, message |-> [text |-> "Entry saved successfully!"]]

\* C19: a saved entry is in the Log Store, and in the Dashboard's aggregates
\* and targets, in the step that sends the instant-feedback request; the step
\* in which that request succeeds or fails changes neither the Log Store nor
\* the aggregates (nor does a request that never returns); a failure leaves
\* the feedback modal open, not loading, with "Entry saved successfully!".
C19_SavedBeforeFeedback ==
    /\ [][SaveStep => HandedOver]_vars
    /\ [][\A k \in DOMAIN outbox :
            (FeedbackFail(k) \/ \E message \in FeedbackMessages : FeedbackDone(k, message))
            => logs' = logs /\ dash' = dash]_vars
    /\ [][\A k \in DOMAIN outbox : FeedbackFail(k) => feedbackModal' = GenericFeedback]_vars

\* a save whose feedback request failed: the entry is stored and aggregated
C19_Witness ==
    /\ feedbackModal = GenericFeedback
    /\ outbox = <<>>
    /\ Len(logs) = 1
    /\ logs[1].type = "exercise"
    /\ dash # Null
    /\ dash.todayTotals.burned = Num(200)

ExpectedMet(intensity) ==
    CASE intensity = "low" -> 4
      [] intensity = "medium" -> 8
      [] intensity = "high" -> 12

----------------------------------------------------------------------------
(* Properties of callApi, checked under SpecApi                             *)

isTransient(response) == has(response, "status") /\ response.status \in {429, 503}

\* C16: a call of callApi sends at most `retries` requests (at most 3), sends
\* a further request only after a response 429 or 503, and throws a failure
\* that is not 429 or 503 after exactly one request.
C16_RetryOnlyTransient ==
    api # Null =>
        /\ Len(api.responses) <= api.retries
        /\ api.retries <= 3
        /\ \A k \in DOMAIN api.responses :
              (k < Len(api.responses) \/ api.pc \in {"fetch", "sleep"})
              => isTransient(api.responses[k])
        /\ \A k \in DOMAIN api.responses :
              (~isTransient(api.responses[k]) /\ has(attempt(api.responses[k]), "error"))
              => Len(api.responses) = 1 /\ api.pc = "thrown"

----------------------------------------------------------------------------
(* Properties of backup and restore, checked under SpecBackup               *)

logsWithoutOids(ls) == [k \in DOMAIN ls |-> withoutOids(ls[k])]

\* the step restores the file of the last export
RestoresBackup == backup # Null /\ handleImportData(backup.text)

\* C13: importing the file of an export gives the Log Store and the Profile
\* of the state that was exported, whatever the state is at the import.
C13_RoundTrip ==
    [][RestoresBackup =>
         /\ logsWithoutOids(logs') = logsWithoutOids(backup.logs)
         /\ profile' = backup.profile]_vars

\* importing the file of an export gives a Log Store and a Profile with the
\* JSON text of the ones that were exported
RestoredUpToJson ==
    [][RestoresBackup =>
         /\ jsonLogs(logs') = jsonLogs(backup.logs)
         /\ profile' = backup.profile]_vars

\* the document is a JSON object with a profile or a logs field
recognizable(file) ==
    /\ has(file, "json")
    /\ has(file.json, "object")
    /\ has(file.json.object, "profile") \/ has(file.json.object, "logs")

\* C14: an import of a file that is no JSON object with a profile or a logs
\* field changes neither Profile nor Log Store nor chat transcript and shows
\* an error; an import of a document with some of the fields changes only
\* the fields it has, and shows no error.
C14_ImportRejects ==
    [][\A file \in FilesAtHand :
          handleImportData(file) =>
             IF recognizable(file)
             THEN /\ ~has(file.json.object, "profile") => profile' = profile
                  /\ ~has(file.json.object, "logs") => logs' = logs
                  /\ ~has(file.json.object, "chatHistory") => chatHistory' = chatHistory
                  /\ alertShown' = [text |-> msgRestored]
             ELSE /\ profile' = profile
                  /\ logs' = logs
                  /\ chatHistory' = chatHistory
                  /\ alertShown' = [text |-> msgInvalidBackup]]_vars

----------------------------------------------------------------------------
(* Properties of the requests with history or context, checked under        *)
(* SpecContext                                                              *)

\* the log entries a request carries as entry, history or context
logsSent(r) ==
    CASE r.action = "getInstantFeedback" -> <<r.payload.entry>>
      [] r.action = "getPersonalizedAdvice" -> r.payload.logs
      [] r.action = "chatWithNutritionist" -> r.payload.context.logs

noImage(ls) == \A j \in DOMAIN ls : ~has(ls[j], "image")

\* C17: no request in flight for instant feedback, for personalized advice or
\* for a chat answer carries a log entry with an image field; the step that
\* sends the logs as history or context leaves the Log Store, with its
\* images, as it is, and the entry saved with an image is stored with it
\* while it is sent without.
C17_NoImageSent ==
    /\ [](\A k \in DOMAIN outbox : noImage(logsSent(outbox[k])))
    /\ [][(handleGenerateAdvice \/ \E text \in ChatInputs : handleSendChatMessage(text))
          => logs' = logs]_vars
    /\ [][saveFoodLog(imageJpeg) =>
            \E k \in DOMAIN logs' :
               /\ has(logs'[k], "image")
               /\ logs'[k].image = imageJpeg
               /\ json(stripImage(logs'[k])) = sentNow.payload.entry]_vars

\* the meal with its photo is in the Log Store while it is in flight, without
\* the photo, as history of an advice request and as context of a chat request
C17_Witness ==
    /\ \E k \in DOMAIN logs : has(logs[k], "image")
    /\ \E k \in DOMAIN outbox :
          outbox[k].action = "getPersonalizedAdvice" /\ outbox[k].payload.logs # <<>>
    /\ \E k \in DOMAIN outbox :
          outbox[k].action = "chatWithNutritionist" /\ outbox[k].payload.context.logs # <<>>

----------------------------------------------------------------------------
(* Properties of the numbers written by the entry form, checked under       *)
(* SpecSanitize                                                             *)

\* a JavaScript value that is a number other than NaN
validNumber(v) == has(v, "num")

\* C18: whatever the estimator answered, the numeric fields of the entries
\* that the entry form wrote to the Log Store are valid numbers (0 by
\* default): caloriesBurned of every exercise entry is a number, never NaN,
\* undefined or a text; the numeric fields of the food items are numbers in
\* every state of the model.
C18_ValidNumbers ==
    \A k \in DOMAIN logs :
        has(logs[k], "exercise") => validNumber(logs[k].exercise.caloriesBurned)

----------------------------------------------------------------------------
(* Properties of the launch, checked under SpecStartup                      *)

\* the blob is missing or no JSON
unusable(blob) == blob = Null \/ has(blob, "empty") \/ has(blob, "raw")

\* C15: the first render of App succeeds whatever the three blobs are, and
\* each state is loaded by itself: a blob that is missing or no JSON gives
\* the default (empty Log Store; the profile 30 years, 175 cm, 70 kg, male,
\* moderate, maintain; a transcript of the one welcome message), and a blob
\* with a saved state gives that state.
C15_StartupFallback ==
    [][AppMount =>
         /\ root' = "app"
         /\ logs' = IF unusable(saved.nutriwise_logs) THEN <<>>
                    ELSE saved.nutriwise_logs.json
         /\ profile' = IF unusable(saved.nutriwise_profile)
                       THEN [name |-> "User", age |-> 30, heightCm |-> 175, weightKg |-> 70,
                             gender |-> "male", activityLevel |-> "moderate",
                             goal |-> "maintain", dietaryPreferences |-> "none"]
                       ELSE saved.nutriwise_profile.json
         /\ chatHistory' = IF unusable(saved.nutriwise_chat) THEN <<welcomeMessage(now)>>
                           ELSE saved.nutriwise_chat.json]_vars

----------------------------------------------------------------------------
(* Properties of the exercise entries, checked under SpecExercise           *)

\* C21: every exercise entry that the entry form wrote to the Log Store has
\* a durationMinutes that is a number > 0 and a caloriesBurned that is a
\* number >= 0, whatever was typed into the duration and calories fields.
C21_ExerciseBounds ==
    \A k \in DOMAIN logs :
        has(logs[k], "exercise") =>
            /\ has(logs[k].exercise.durationMinutes, "num")
            /\ logs[k].exercise.durationMinutes.num > 0
            /\ has(logs[k].exercise.caloriesBurned, "num")
            /\ logs[k].exercise.caloriesBurned.num >= 0

----------------------------------------------------------------------------
(* Properties of the backoff of callApi, checked under SpecApi              *)

\* the attempts of the running call that have failed so far
failedAttempts == { k \in DOMAIN api.responses : has(attempt(api.responses[k]), "error") }

\* C24: the wait after the failed attempt number i (counted from 0) is
\* 1500 * 2^(i+1) ms, each wait is double the one before it, a new attempt
\* starts only after the wait that follows the failed one, and no wait
\* follows the final attempt.
C24_Backoff ==
    api # Null =>
        /\ \A j \in DOMAIN api.delays : api.delays[j] = 1500 * 2 ^ ((j - 1) + 1)
        /\ \A j \in DOMAIN api.delays : j > 1 => api.delays[j] = 2 * api.delays[j - 1]
        /\ Len(api.delays) <= api.retries - 1
        /\ api.pc \in {"fetch", "sleep"} => Len(api.delays) = Cardinality(failedAttempts)
        /\ api.pc = "fetch" => Len(api.delays) = api.i
        /\ api.pc = "thrown" => Len(api.delays) = Cardinality(failedAttempts) - 1

\* three busy answers to a call with three attempts: waits of 3 s and 6 s
C24_Witness ==
    /\ api # Null
    /\ api.pc = "thrown"
    /\ api.retries = 3
    /\ Len(api.responses) = 3
    /\ api.delays = <<3000, 6000>>

----------------------------------------------------------------------------
(* Properties of executeWithFallback, checked under SpecServer              *)

\* a model-unavailable failure: status 404, or a message containing
\* "not found" or "not supported"
unavailable(settlement) ==
    /\ has(settlement, "error")
    /\ \/ has(settlement.error, "status") /\ settlement.error.status = 404
       \/ has(settlement.error, "message")
          /\ \/ includes(settlement.error.message, <<"n","o","t"," ","f","o","u","n","d">>)
             \/ includes(settlement.error.message,
                         <<"n","o","t"," ","s","u","p","p","o","r","t","e","d">>)

\* C30: the candidates are tried in their listed order; a further candidate
\* is tried only after model-unavailable failures of all the earlier ones;
\* the call returns the result of the first candidate that succeeds, throws
\* at once a failure that is not model-unavailable, and throws the last
\* model-unavailable error when all candidates are unavailable.
C30_Fallback ==
    server # Null =>
        LET n == Len(server.settled)
        IN  /\ n <= Len(CANDIDATE_MODELS)
            /\ \A j \in 1..(n - 1) : unavailable(server.settled[j])
            /\ server.pc = "await" =>
                  /\ server.k = n + 1
                  /\ \A j \in 1..n : unavailable(server.settled[j])
            /\ server.pc = "returned" =>
                  /\ has(server.settled[n], "ok")
                  /\ server.result = [from |-> CANDIDATE_MODELS[n]]
            /\ server.pc = "thrown" =>
                  /\ has(server.settled[n], "error")
                  /\ server.thrown = server.settled[n].error
                  /\ unavailable(server.settled[n]) => n = Len(CANDIDATE_MODELS)

\* the first candidate is not found, a message says the second is not
\* supported, the third answers
C30_Witness ==
    /\ server # Null
    /\ server.pc = "returned"
    /\ Len(server.settled) = 3
    /\ server.settled[2] = [error |-> [status |-> 400, message |-> msgNotSupported]]
    /\ server.result = [from |-> "gemini-1.5-flash-001"]

----------------------------------------------------------------------------
(* Properties of the Profile, checked under SpecProfile                     *)

\* C22: after any sequence of edits on the profile screen age, heightCm and
\* weightKg are non-negative numbers and age > 0.
C22_ProfileInvariant ==
    /\ profile.age > 0
    /\ profile.heightCm >= 0
    /\ profile.weightKg >= 0

----------------------------------------------------------------------------
(* Properties of an edit that is cancelled, checked under SpecForm (no step *)
(* of it saves, deletes or copies an entry)                                 *)

\* C25: whenever no edit is open (before the first one, and after each
\* cancel), every entry of the Log Store, the items of the entries that were
\* opened and changed in the form included, is what it was before the edit
\* was opened: it is one of the Log Stores loaded at the launch.
C25_CancelRestores ==
    editingLog = Null =>
        logsWithoutOids(logs) \in { logsWithoutOids(stored) : stored \in StoredLogs }

----------------------------------------------------------------------------
(* Properties of copies, checked under SpecCopy (every second entry of its  *)
(* Log Store is a copy of the first)                                        *)

\* the step of handleCopyLog
CopyStep ==
    /\ Len(logs') = Len(logs) + 1
    /\ feedbackModal'.isOpen /\ ~feedbackModal.isOpen

\* C26: a copy prepends an entry with timestamp = now, an id of its own and
\* the content of the copied entry and leaves the entries that were there
\* unchanged; while one of the two is open in the form, no step of the edit
\* (a quantity change, its save, its cancel) changes the other entry.
C26_CopyIndependent ==
    [][ /\ CopyStep =>
              /\ \A k \in DOMAIN logs : withoutOids(logs'[k + 1]) = withoutOids(logs[k])
              /\ logs'[1].timestamp = now
              /\ \A k \in DOMAIN logs : logs'[1].id # logs[k].id
              /\ \E k \in DOMAIN logs :
                    withoutOids(logs'[1])
                      = withoutOids([logs[k] EXCEPT !.id = logs'[1].id, !.timestamp = now])
        /\ (editingLog # Null /\ Len(logs') = Len(logs)) =>
              \A k \in DOMAIN logs :
                  logs[k].id # editingLog.id => withoutOids(logs'[k]) = withoutOids(logs[k])
      ]_vars

----------------------------------------------------------------------------
(* Properties of the chat transcript, checked under SpecContext             *)

\* the step in which the answer of a chat request arrives
ResponseArrives == isChatLoading /\ ~isChatLoading'

\* C27: when the answer of a chat request arrives, every message of the
\* transcript but the new model message was in the transcript just before:
\* messages removed by a clear while the request was in flight do not come
\* back, and the answer only adds to the transcript as it is.
C27_NoStaleTranscript ==
    [][ ResponseArrives =>
            /\ Len(chatHistory') = Len(chatHistory) + 1
            /\ \A j \in 1..(Len(chatHistory') - 1) : chatHistory'[j] = chatHistory[j]
      ]_vars

----------------------------------------------------------------------------
(* Properties of a chat request, checked under SpecChat                     *)

\* the chat requests in flight
chatRequests(box) == { k \in DOMAIN box : box[k].action = "chatWithNutritionist" }

\* a message is sent: a chat request is added to those in flight
SendStep == Cardinality(chatRequests(outbox')) > Cardinality(chatRequests(outbox))

\* C28: a send is accepted only while isChatLoading is false and sets it, so
\* at most one chat request is in flight; the arrival of its answer leaves
\* the sent message followed by one model message at the end of the
\* transcript (the answer or the error text); and, every request settling,
\* isChatLoading always returns to false.
C28_ChatAnswered ==
    /\ [](isChatLoading <=> Cardinality(chatRequests(outbox)) = 1)
    /\ [](Cardinality(chatRequests(outbox)) <= 1)
    /\ [][SendStep => ~isChatLoading /\ isChatLoading']_vars
    /\ [][ResponseArrives =>
            LET n == Len(chatHistory')
                sent == outbox[CHOOSE k \in chatRequests(outbox) : TRUE].payload.message
            IN  /\ n >= 2
                /\ chatHistory'[n].role = "model"
                /\ chatHistory'[n].text \in ChatTexts
                /\ chatHistory'[n - 1].role = "user"
                /\ chatHistory'[n - 1].text = sent
                /\ \A j \in 1..(n - 2) :
                      chatHistory'[j].role = "user" => chatHistory'[j + 1].role = "model"]_vars
    /\ (isChatLoading ~> ~isChatLoading)

\* the retries are exhausted: the error text is the answer
C28_Witness ==
    /\ ~isChatLoading
    /\ Len(chatHistory) = 3
    /\ chatHistory[2].role = "user"
    /\ chatHistory[3].role = "model"
    /\ chatHistory[3].text = msgChatError

----------------------------------------------------------------------------
(* Properties of the edit mode, checked under SpecAwait                     *)

\* C29: while an entry is being edited the view is 'add' and the Log Store
\* holds an entry with the edited id.
C29_EditingInvariant ==
    editingLog # Null =>
        /\ view = "add"
        /\ \E k \in DOMAIN logs : logs[k].id = editingLog.id

----------------------------------------------------------------------------
(* Properties of the removal of entries, checked under SpecAwait            *)

\* the ids of the entries of a Log Store
idsOf(ls) == { ls[k].id : k \in DOMAIN ls }

\* the step of a confirmed delete of the id of a stored entry: the entries
\* with other ids stay, in their order
ConfirmedDelete ==
    /\ view = "history"
    /\ \E k \in DOMAIN logs :
          logsWithoutOids(logs') = logsWithoutOids(filterOutId(logs, logs[k].id))

\* C23: an entry leaves the Log Store only in the step of a confirmed delete
\* of its id, which keeps the other entries and their order; every other step
\* (a declined delete, a save, a copy, an edit, a time step) keeps every id
\* of the Log Store in it.
C23_OnlyDeleteRemoves ==
    [][ \/ idsOf(logs) \subseteq idsOf(logs')
        \/ ConfirmedDelete ]_vars

====
